---- MODULE Spec2Model ----
(***************************************************************************)
(* A model of the pantry persistence and retrieval engine:                 *)
(*   - the Redactor (internal/redaction),                                  *)
(*   - the Shelf Writer (internal/storage),                                *)
(*   - the Hybrid Search Engine (internal/search),                         *)
(*   - the Relational Store and the Service orchestrator (internal/db,     *)
(*     internal/core).                                                     *)
(* Texts are sequences of one-character strings, so that substring tests,  *)
(* regular-expression matches and line splitting are computed the way the  *)
(* Go code computes them.                                                  *)
(***************************************************************************)
EXTENDS Integers, Sequences, FiniteSets, TLC

VARIABLES
    \* --- Redactor specification (SpecRedact)
    rIn,        \* the text handed to Redact
    rPats,      \* the caller-supplied custom patterns
    rOut,       \* Redact(rIn)
    rOut2,      \* Redact(Redact(rIn))
    rPc         \* "in" | "once" | "twice"

redactVars == <<rIn, rPats, rOut, rOut2, rPc>>

VARIABLES
    \* --- Hybrid search specification (SpecSearch): the last call and what
    \* the test doubles (fakeStore, fakeEmbedder) were set up to return
    sOp,         \* "none" | "tiered" | "hybrid" | "merge"
    sFts,        \* fakeStore.ftsResults
    sFtsErr,     \* fakeStore.ftsErr # nil
    sVec,        \* fakeStore.vecResults
    sVecErr,     \* fakeStore.vecErr # nil
    sProvider,   \* embeddingProvider # nil
    sEmbedErr,   \* fakeEmbedder.err # nil
    sLimit,      \* limit
    sMin,        \* minFTSResults
    sWeights,    \* <<ftsWeight, vecWeight>>
    sOut         \* [res, err, ftsCalled, embedCalled, vecCalled]

searchVars == <<sOp, sFts, sFtsErr, sVec, sVecErr, sProvider, sEmbedErr,
                sLimit, sMin, sWeights, sOut>>

VARIABLES
    \* --- Shelf Writer
    shelf,       \* project -> the lines of its notes file of the day (<<>>: no file)
    shelfLog     \* what each WriteNoteItem call so far was given and rendered

shelfVars == <<shelf, shelfLog>>

VARIABLES
    \* --- Relational Store and Service
    svcDb,       \* the database: [items, details, fts, dim, vecTable, vec]
    svcProvider, \* the cached embedding provider: "unset" | "ok" | "err"
    idCount,     \* how many identifiers uuid.New() has handed out
    storeLog     \* the Store calls so far: input, project, result

storeVars == <<svcDb, svcProvider, idCount, storeLog>>

VARIABLES
    \* --- Service operations (SpecService, SpecDb)
    svcOp,       \* the last operation: its name, inputs, result and the state before it
    svcDim,      \* the length of the vectors the configured provider returns
    svcSteps     \* how many operations were called

opVars == <<svcOp, svcDim, svcSteps>>

VARIABLES
    \* --- Lazy initialisation (SpecOnce): callers of GetEmbeddingProvider and
    \* VectorsAvailable on one Service
    oPc,         \* caller -> where it is in its call
    oKind,       \* caller -> "none" | "emb" | "vec": the method it calls
    oOnce,       \* "emb" | "vec" -> [done, lock, calls, writing, value]
    oRet,        \* caller -> what its call returned
    oRaced       \* a cached field was read while it was being written

onceVars == <<oPc, oKind, oOnce, oRet, oRaced>>

moreVars == <<opVars, onceVars>>

vars == <<redactVars, searchVars, shelfVars, storeVars, moreVars>>

(***************************************************************************)
(* Text helpers (Go strings package)                                       *)
(***************************************************************************)
NL == "\n"

\* s[i..j] as a sequence (empty when j < i)
Slice(s, i, j) == IF j < i THEN <<>> ELSE SubSeq(s, i, j)

\* strings.HasPrefix(s[i:], p), i a 1-based position
HasAt(s, p, i) ==
    /\ i >= 1
    /\ i + Len(p) - 1 <= Len(s)
    /\ \A k \in 1..Len(p) : s[i + k - 1] = p[k]

HasPrefix(s, p) == HasAt(s, p, 1)

\* strings.Index(s[i:], p) as an absolute 1-based position, 0 when absent
RECURSIVE IndexFrom(_, _, _)
IndexFrom(s, p, i) ==
    IF i + Len(p) - 1 > Len(s) THEN 0
    ELSE IF HasAt(s, p, i) THEN i
    ELSE IndexFrom(s, p, i + 1)

\* strings.Contains
Contains(s, p) == IndexFrom(s, p, 1) # 0

\* strings.ReplaceAll(s, old, new) for a non-empty old
RECURSIVE ReplaceAllFrom(_, _, _, _)
ReplaceAllFrom(s, old, new, i) ==
    IF i > Len(s) THEN <<>>
    ELSE IF HasAt(s, old, i) THEN new \o ReplaceAllFrom(s, old, new, i + Len(old))
    ELSE <<s[i]>> \o ReplaceAllFrom(s, old, new, i + 1)

ReplaceAll(s, old, new) == ReplaceAllFrom(s, old, new, 1)

\* number of non-overlapping occurrences of p in s (strings.Count)
RECURSIVE CountFrom(_, _, _)
CountFrom(s, p, i) ==
    IF i + Len(p) - 1 > Len(s) THEN 0
    ELSE IF HasAt(s, p, i) THEN 1 + CountFrom(s, p, i + Len(p))
    ELSE CountFrom(s, p, i + 1)

Count(s, p) == CountFrom(s, p, 1)

\* concatenation of a sequence of texts
RECURSIVE Concat(_)
Concat(ss) == IF ss = <<>> THEN <<>> ELSE Head(ss) \o Concat(Tail(ss))

(***************************************************************************)
(* Redactor: internal/redaction/redaction.go                               *)
(***************************************************************************)
OpenTag == <<"<", "r", "e", "d", "a", "c", "t", "e", "d", ">">>
CloseTag == <<"<", "/", "r", "e", "d", "a", "c", "t", "e", "d", ">">>
Marker == <<"[", "R", "E", "D", "A", "C", "T", "E", "D", "]">>

Lower == {"a", "b", "c", "d", "e", "g", "h", "i", "k", "l", "n", "o", "p",
          "r", "s", "t", "u", "v", "x", "y", "z"}
Upper == {"A", "B", "C", "D", "E", "L", "R", "T", "X"}
Digit == {"0", "1"}
AlNum == Lower \cup Upper \cup Digit

\* The built-in patterns of the shape  <literal>[class]+ :
\* sk_live_[a-zA-Z0-9]+, sk_test_[a-zA-Z0-9]+, ghp_[a-zA-Z0-9]+,
\* xoxb-[a-zA-Z0-9-]+.  The other built-in patterns (AKIA..., the private key
\* header, the JWT shape, and the password/secret/api_key assignments) need
\* one of the characters K, I, J, G, N, ':' or '=', which no text of this
\* model contains, so they never match here.
SensitivePatterns == <<
    [lit |-> <<"s", "k", "_", "l", "i", "v", "e", "_">>, class |-> AlNum],
    [lit |-> <<"s", "k", "_", "t", "e", "s", "t", "_">>, class |-> AlNum],
    [lit |-> <<"g", "h", "p", "_">>, class |-> AlNum],
    [lit |-> <<"x", "o", "x", "b", "-">>, class |-> AlNum \cup {"-"}] >>

\* end (exclusive) of the longest run of class characters starting at i
RECURSIVE RunEnd(_, _, _)
RunEnd(s, class, i) ==
    IF i <= Len(s) /\ s[i] \in class THEN RunEnd(s, class, i + 1) ELSE i

\* regexp `<redacted>.*?</redacted>` anchored at i: the position after the
\* match, or 0.  `.` does not match a line break and `*?` is not greedy, so
\* the match ends at the first closing tag, provided no line break precedes it.
TagMatchEnd(s, i) ==
    IF ~HasAt(s, OpenTag, i) THEN 0
    ELSE LET c == IndexFrom(s, CloseTag, i + Len(OpenTag))
             n == IndexFrom(s, <<NL>>, i + Len(OpenTag))
         IN IF c = 0 \/ (n # 0 /\ n < c) THEN 0 ELSE c + Len(CloseTag)

\* a pattern <literal>[class]+ anchored at i: the position after the match, or 0
ClassMatchEnd(s, pat, i) ==
    IF ~HasAt(s, pat.lit, i) THEN 0
    ELSE LET e == RunEnd(s, pat.class, i + Len(pat.lit))
         IN IF e = i + Len(pat.lit) THEN 0 ELSE e

\* Regexp.ReplaceAllString(s, "[REDACTED]"): leftmost matches, not overlapping
RECURSIVE ReplaceTags(_, _)
ReplaceTags(s, i) ==
    IF i > Len(s) THEN <<>>
    ELSE LET e == TagMatchEnd(s, i)
         IN IF e # 0 THEN Marker \o ReplaceTags(s, e)
            ELSE <<s[i]>> \o ReplaceTags(s, i + 1)

RECURSIVE ReplaceClass(_, _, _)
ReplaceClass(s, pat, i) ==
    IF i > Len(s) THEN <<>>
    ELSE LET e == ClassMatchEnd(s, pat, i)
         IN IF e # 0 THEN Marker \o ReplaceClass(s, pat, e)
            ELSE <<s[i]>> \o ReplaceClass(s, pat, i + 1)

\* Layer 1 loop: substitute until nothing changes
RECURSIVE RedactTagsLoop(_)
RedactTagsLoop(s) ==
    LET t == ReplaceTags(s, 1)
    IN IF t = s THEN s ELSE RedactTagsLoop(t)

\* Layer 1: the loop, then both orphan tags are stripped
StripOrphans(s) == ReplaceAll(ReplaceAll(s, OpenTag, <<>>), CloseTag, <<>>)

Layer1(s) == StripOrphans(RedactTagsLoop(s))

\* Layer 2: the built-in patterns, in order
RECURSIVE ApplyBuiltins(_, _)
ApplyBuiltins(s, k) ==
    IF k > Len(SensitivePatterns) THEN s
    ELSE ApplyBuiltins(ReplaceClass(s, SensitivePatterns[k], 1), k + 1)

\* CompilePatterns: patterns that do not compile are skipped
CompilePatterns(pats) == SelectSeq(pats, LAMBDA p : p.valid)

\* Layer 3: the custom patterns, in order
RECURSIVE ApplyCustom(_, _)
ApplyCustom(s, extra) ==
    IF extra = <<>> THEN s
    ELSE ApplyCustom(ReplaceAll(s, Head(extra).lit, Marker), Tail(extra))

RedactCompiled(text, extra) == ApplyCustom(ApplyBuiltins(Layer1(text), 1), extra)

Redact(text, extraPatterns) == RedactCompiled(text, CompilePatterns(extraPatterns))

(***************************************************************************)
(* Pointers: <<>> is nil, <<x>> points to x                                *)
(***************************************************************************)
NilPtr == <<>>
Ptr(x) == <<x>>

(***************************************************************************)
(* More of the Go strings and sort packages                                *)
(***************************************************************************)
HasSuffix(s, p) == Len(p) <= Len(s) /\ HasAt(s, p, Len(s) - Len(p) + 1)

\* strings.Split(s, sep) for a non-empty sep
RECURSIVE Split(_, _)
Split(s, sep) ==
    LET i == IndexFrom(s, sep, 1)
    IN IF i = 0 THEN <<s>>
       ELSE <<Slice(s, 1, i - 1)>> \o Split(Slice(s, i + Len(sep), Len(s)), sep)

\* strings.Join(parts, sep)
RECURSIVE Join(_, _)
Join(parts, sep) ==
    IF parts = <<>> THEN <<>>
    ELSE IF Len(parts) = 1 THEN parts[1]
    ELSE parts[1] \o sep \o Join(Tail(parts), sep)

WhiteSpace == {" ", "\t", "\n", "\r"}

\* strings.TrimSpace
RECURSIVE TrimLeftSpace(_)
TrimLeftSpace(s) ==
    IF s # <<>> /\ Head(s) \in WhiteSpace THEN TrimLeftSpace(Tail(s)) ELSE s

RECURSIVE TrimRightSpace(_)
TrimRightSpace(s) ==
    IF s # <<>> /\ s[Len(s)] \in WhiteSpace
    THEN TrimRightSpace(Slice(s, 1, Len(s) - 1)) ELSE s

TrimSpace(s) == TrimRightSpace(TrimLeftSpace(s))

UpperChars == <<"A", "B", "C", "D", "E", "F", "G", "H", "I", "J", "K", "L", "M", "N", "O", "P", "Q", "R", "S", "T", "U", "V", "W", "X", "Y", "Z">>
LowerChars == <<"a", "b", "c", "d", "e", "f", "g", "h", "i", "j", "k", "l", "m", "n", "o", "p", "q", "r", "s", "t", "u", "v", "w", "x", "y", "z">>

\* strings.ToLower over the characters of the model
LowerChar(c) ==
    IF \E i \in 1..Len(UpperChars) : UpperChars[i] = c
    THEN LowerChars[CHOOSE i \in 1..Len(UpperChars) : UpperChars[i] = c]
    ELSE c

ToLower(s) == [i \in 1..Len(s) |-> LowerChar(s[i])]

\* strings.EqualFold
EqualFold(a, b) == ToLower(a) = ToLower(b)

\* the characters of the model in byte order
ByteOrder ==
    <<"\t", NL, "\r">> \o <<" ", "!", "#", "*", ",", "-", ".", "/", "0", "1", "2", "3", "4", "5", "6", "7", "8", "9", ":", "<", "=", ">", "?">> \o UpperChars \o <<"[", "]", "_">>
    \o LowerChars \o <<"|", "~">>

CharCode(c) == CHOOSE i \in 1..Len(ByteOrder) : ByteOrder[i] = c

\* a < b as Go compares strings (byte-wise)
RECURSIVE StrLess(_, _)
StrLess(a, b) ==
    IF b = <<>> THEN FALSE
    ELSE IF a = <<>> THEN TRUE
    ELSE IF Head(a) = Head(b) THEN StrLess(Tail(a), Tail(b))
    ELSE CharCode(Head(a)) < CharCode(Head(b))

\* sort.Strings on a slice
RECURSIVE InsertSorted(_, _)
InsertSorted(sorted, x) ==
    IF sorted = <<>> THEN <<x>>
    ELSE IF StrLess(x, Head(sorted)) THEN <<x>> \o sorted
    ELSE <<Head(sorted)>> \o InsertSorted(Tail(sorted), x)

RECURSIVE SortStrings(_)
SortStrings(list) ==
    IF list = <<>> THEN <<>>
    ELSE InsertSorted(SortStrings(Tail(list)), Head(list))

\* the keys of a map[string]bool, then sort.Strings
RECURSIVE SortedKeys(_)
SortedKeys(S) ==
    IF S = {} THEN <<>>
    ELSE LET m == CHOOSE x \in S : \A y \in S \ {x} : StrLess(x, y)
         IN <<m>> \o SortedKeys(S \ {m})

Elems(list) == {list[i] : i \in 1..Len(list)}

(***************************************************************************)
(* Models: internal/models                                                 *)
(***************************************************************************)
ValidCategories == <<"decision", "pattern", "bug", "context", "learning">>

CategoryHeadings ==
    [c \in Elems(ValidCategories) |->
        CASE c = "decision" -> <<"D", "e", "c", "i", "s", "i", "o", "n", "s">>
          [] c = "pattern" -> <<"P", "a", "t", "t", "e", "r", "n", "s">>
          [] c = "bug" -> <<"B", "u", "g", "s", " ", "F", "i", "x", "e", "d">>
          [] c = "context" -> <<"C", "o", "n", "t", "e", "x", "t">>
          [] c = "learning" -> <<"L", "e", "a", "r", "n", "i", "n", "g", "s">>]

\* slices.Index(ValidCategories, cat), 0-based, -1 when absent
CategoryIndex(cat) ==
    IF cat \in Elems(ValidCategories)
    THEN (CHOOSE i \in 1..Len(ValidCategories) : ValidCategories[i] = cat) - 1
    ELSE -1

(***************************************************************************)
(* Shelf Writer: internal/storage/shelf.go.  A notes file is held as its   *)
(* sequence of lines (the file's text split at line breaks).  Each line    *)
(* carries, next to its text t, a history mark o that no operation reads:  *)
(* 0 for the lines of the header and the separators, -1 for a category     *)
(* heading the writer emitted, and k >= 1 for the lines of the section     *)
(* rendered for the k-th item written.                                     *)
(***************************************************************************)
Line(t, o) == [t |-> t, o |-> o]

\* the lines of a text, all marked o
Marked(text, o) ==
    LET ls == Split(text, <<NL>>)
    IN [i \in 1..Len(ls) |-> Line(ls[i], o)]

Texts(lines) == [i \in 1..Len(lines) |-> lines[i].t]

\* the text of a file held as lines
FileText(lines) == Join(Texts(lines), <<NL>>)

\* strings.TrimRight(text, "\n") on the lines of a text: the trailing empty
\* lines go, the (possibly empty) last line before them stays
RECURSIVE TrimRightNL(_)
TrimRightNL(lines) ==
    IF Len(lines) > 1 /\ lines[Len(lines)].t = <<>>
    THEN TrimRightNL(SubSeq(lines, 1, Len(lines) - 1))
    ELSE lines

BlankLine == Line(<<>>, 0)

H2 == <<"#", "#", " ">>

renderSection(item, details) ==
    Join(<<<<"#", "#", "#", " ">> \o item.title, <<"*", "*", "W", "h", "a", "t", ":", "*", "*", " ">> \o item.what>>
         \o (IF item.why # NilPtr THEN <<<<"*", "*", "W", "h", "y", ":", "*", "*", " ">> \o item.why[1]>> ELSE <<>>)
         \o (IF item.impact # NilPtr THEN <<<<"*", "*", "I", "m", "p", "a", "c", "t", ":", "*", "*", " ">> \o item.impact[1]>> ELSE <<>>)
         \o (IF item.source # NilPtr THEN <<<<"*", "*", "S", "o", "u", "r", "c", "e", ":", "*", "*", " ">> \o item.source[1]>> ELSE <<>>)
         \o (IF details # NilPtr
             THEN << <<>>, <<"<", "d", "e", "t", "a", "i", "l", "s", ">">>, details[1], <<"<", "/", "d", "e", "t", "a", "i", "l", "s", ">">> >>
             ELSE <<>>),
         <<NL>>)

\* fmt.Sprintf("<key>: [%s]", strings.Join(values, ", "))
BracketedLine(key, values) == key \o <<":", " ", "[">> \o Join(values, <<",", " ">>) \o <<"]">>

createNewNotesFile(item, dateStr, sectionContent, now, k) ==
    LET sources == IF item.source # NilPtr THEN <<item.source[1]>> ELSE <<>>
        tags == SortStrings(item.tags)
        header ==
            <<<<"-", "-", "-">>, <<"p", "r", "o", "j", "e", "c", "t", ":", " ">> \o item.project>>
            \o (IF Len(sources) > 0 THEN <<BracketedLine(<<"s", "o", "u", "r", "c", "e", "s">>, sources)>> ELSE <<>>)
            \o <<<<"c", "r", "e", "a", "t", "e", "d", ":", " ">> \o now>>
            \o (IF Len(tags) > 0 THEN <<BracketedLine(<<"t", "a", "g", "s">>, tags)>> ELSE <<>>)
            \o << <<"-", "-", "-">>, <<>>, <<"#", " ">> \o dateStr \o <<" ", "N", "o", "t", "e", "s">>, <<>> >>
    IN Marked(Join(header, <<NL>>), 0)
       \o (IF item.category # NilPtr
           THEN Marked(H2 \o CategoryHeadings[item.category[1]], -1) \o <<BlankLine>>
           ELSE <<>>)
       \o Marked(sectionContent, k)
       \o <<BlankLine>>

\* strings.SplitN(content, "---\n", 3): the first two lines that end in "---"
\* and are followed by a line break
FenceLines(lines) ==
    {i \in 1..(Len(lines) - 1) : HasSuffix(lines[i].t, <<"-", "-", "-">>)}

FirstFence(lines) == CHOOSE i \in FenceLines(lines) : \A j \in FenceLines(lines) : i <= j

SecondFence(lines) ==
    CHOOSE i \in FenceLines(lines) \ {FirstFence(lines)} :
        \A j \in FenceLines(lines) \ {FirstFence(lines)} : i <= j

\* splitFrontmatter: <<frontmatter, body>>, both as lines
splitFrontmatter(lines) ==
    IF Cardinality(FenceLines(lines)) >= 2
    THEN LET a == FirstFence(lines)
             b == SecondFence(lines)
         IN <<<<Line(<<"-", "-", "-">>, 0)>> \o SubSeq(lines, a + 1, b),
              SubSeq(lines, b + 1, Len(lines))>>
    ELSE <<<<BlankLine>>, lines>>

parseBracketedList(line) ==
    LET idx == IndexFrom(line, <<"[">>, 1)
        idx2 == IF idx = 0 THEN 0 ELSE IndexFrom(line, <<"]">>, idx)
        raw == Slice(line, idx + 1, idx2 - 1)
        parts == Split(raw, <<",">>)
        trimmed == [i \in 1..Len(parts) |-> TrimSpace(parts[i])]
    IN IF idx = 0 \/ idx2 = 0 \/ raw = <<>> THEN <<>>
       ELSE SelectSeq(trimmed, LAMBDA s : s # <<>>)

\* the value parsed from the last line of the frontmatter with the prefix
RECURSIVE LastList(_, _)
LastList(lines, prefix) ==
    IF lines = <<>> THEN <<>>
    ELSE IF HasPrefix(lines[Len(lines)].t, prefix)
    THEN parseBracketedList(lines[Len(lines)].t)
    ELSE LastList(SubSeq(lines, 1, Len(lines) - 1), prefix)

updateFrontmatter(frontmatter, item) ==
    LET existingTags == LastList(frontmatter, <<"t", "a", "g", "s", ":">>)
        existingSources == LastList(frontmatter, <<"s", "o", "u", "r", "c", "e", "s", ":">>)
        allTags == {ToLower(t) : t \in Elems(existingTags) \cup Elems(item.tags)}
        tagList == SortedKeys(allTags)
        sources == IF item.source # NilPtr /\ item.source[1] \notin Elems(existingSources)
                   THEN Append(existingSources, item.source[1])
                   ELSE existingSources
        Rebuilt(line) ==
            IF HasPrefix(line.t, <<"t", "a", "g", "s", ":">>)
            THEN Marked(BracketedLine(<<"t", "a", "g", "s">>, tagList), line.o)
            ELSE IF HasPrefix(line.t, <<"s", "o", "u", "r", "c", "e", "s", ":">>)
            THEN Marked(BracketedLine(<<"s", "o", "u", "r", "c", "e", "s">>, sources), line.o)
            ELSE <<line>>
    IN Concat([i \in 1..Len(frontmatter) |-> Rebuilt(frontmatter[i])])

\* strings.Contains(body, needle) for a needle without a line break
BodyContains(body, needle) == \E i \in 1..Len(body) : Contains(body[i].t, needle)

\* strings.TrimRight(body, "\n") + "\n\n" + sectionContent + "\n"
AppendAtEnd(body, sectionContent, k) ==
    TrimRightNL(body) \o <<BlankLine>> \o Marked(sectionContent, k) \o <<BlankLine>>

\* the index after the run of blank lines that starts at i
RECURSIVE SkipBlank(_, _)
SkipBlank(lines, i) ==
    IF i <= Len(lines) /\ TrimSpace(lines[i].t) = <<>> THEN SkipBlank(lines, i + 1) ELSE i

\* the index of the first line from i on that starts with "## "
RECURSIVE SkipToH2(_, _)
SkipToH2(lines, i) ==
    IF i <= Len(lines) /\ ~HasPrefix(lines[i].t, H2) THEN SkipToH2(lines, i + 1) ELSE i

\* the loop of appendUnderExistingCategory from line i on
RECURSIVE AppendUnderLoop(_, _, _, _, _)
AppendUnderLoop(lines, i, categoryHeading, sectionContent, k) ==
    IF i > Len(lines) THEN <<>>
    ELSE IF lines[i].t = H2 \o categoryHeading
    THEN LET j == SkipToH2(lines, SkipBlank(lines, i + 1))
         IN SubSeq(lines, i, j - 1) \o <<BlankLine>> \o Marked(sectionContent, k)
            \o AppendUnderLoop(lines, j, categoryHeading, sectionContent, k)
    ELSE <<lines[i]>> \o AppendUnderLoop(lines, i + 1, categoryHeading, sectionContent, k)

appendUnderExistingCategory(body, categoryHeading, sectionContent, k) ==
    AppendUnderLoop(body, 1, categoryHeading, sectionContent, k) \o <<BlankLine>>

\* the heading lines of insertNewCategory's scan that name a category placed
\* after the target
LaterHeadings(lines, targetIndex) ==
    {i \in 1..Len(lines) :
        /\ HasPrefix(lines[i].t, H2)
        /\ \E c \in Elems(ValidCategories) :
              /\ CategoryHeadings[c] = TrimSpace(Slice(lines[i].t, 4, Len(lines[i].t)))
              /\ CategoryIndex(c) > targetIndex}

insertNewCategory(body, category, categoryHeading, sectionContent, k) ==
    LET targetIndex == CategoryIndex(category)
        later == LaterHeadings(body, targetIndex)
        insertPosition == IF later = {} THEN Len(body) + 1
                          ELSE CHOOSE i \in later : \A j \in later : i <= j
    IN IF targetIndex = -1 THEN AppendAtEnd(body, sectionContent, k)
       ELSE TrimRightNL(SubSeq(body, 1, insertPosition - 1)
                        \o Marked(H2 \o categoryHeading, -1) \o <<BlankLine>>
                        \o Marked(sectionContent, k) \o <<BlankLine>>
                        \o SubSeq(body, insertPosition, Len(body)))
            \o <<BlankLine>>

insertSectionInBody(body, item, sectionContent, k) ==
    IF item.category = NilPtr THEN AppendAtEnd(body, sectionContent, k)
    ELSE LET categoryHeading == CategoryHeadings[item.category[1]]
         IN IF BodyContains(body, H2 \o categoryHeading)
            THEN appendUnderExistingCategory(body, categoryHeading, sectionContent, k)
            ELSE insertNewCategory(body, item.category[1], categoryHeading, sectionContent, k)

appendToNotesFile(content, item, sectionContent, k) ==
    LET parts == splitFrontmatter(content)
    IN updateFrontmatter(parts[1], item) \o insertSectionInBody(parts[2], item, sectionContent, k)

\* WriteNoteItem on the notes file of one (project, day): the new content.
\* A file that does not exist is <<>>.
WriteNoteItem(file, item, dateStr, details, now, k) ==
    IF file = <<>>
    THEN createNewNotesFile(item, dateStr, renderSection(item, details), now, k)
    ELSE appendToNotesFile(file, item, renderSection(item, details), k)

(***************************************************************************)
(* Scores: float64 values are modelled as exact rationals <<n, d>>, d > 0, *)
(* in lowest terms                                                         *)
(***************************************************************************)
Abs(x) == IF x < 0 THEN -x ELSE x

RECURSIVE Gcd(_, _)
Gcd(a, b) == IF b = 0 THEN a ELSE Gcd(b, a % b)

Rat(n, d) ==
    LET g == Gcd(Abs(n), Abs(d))
        sg == IF d < 0 THEN -1 ELSE 1
    IN <<(sg * n) \div g, (sg * d) \div g>>

RInt(n) == <<n, 1>>
RAdd(a, b) == Rat(a[1] * b[2] + b[1] * a[2], a[2] * b[2])
RMul(a, b) == Rat(a[1] * b[1], a[2] * b[2])
RDiv(a, b) == Rat(a[1] * b[2], a[2] * b[1])
RLess(a, b) == a[1] * b[2] < b[1] * a[2]
RLeq(a, b) == a[1] * b[2] <= b[1] * a[2]
RZero == RInt(0)

(***************************************************************************)
(* Hybrid Search Engine: internal/search/hybrid.go                         *)
(***************************************************************************)
DefaultFTSWeight == Rat(3, 10)
DefaultVecWeight == Rat(7, 10)
DefaultMinFTSResults == 3

\* the maximum score of a non-empty list (normalizeScores, first loop)
RECURSIVE MaxScore(_)
MaxScore(results) ==
    IF Len(results) = 1 THEN results[1].score
    ELSE LET m == MaxScore(Tail(results))
         IN IF RLess(m, results[1].score) THEN results[1].score ELSE m

\* normalizeScores skips the division for an empty list or a maximum <= 0
SkipNormalize(results) ==
    Len(results) = 0 \/ RLeq(MaxScore(results), RZero)

normalizeScores(results) ==
    IF SkipNormalize(results) THEN results
    ELSE [i \in 1..Len(results) |->
            [results[i] EXCEPT !.score = RDiv(@, MaxScore(results))]]

\* results[:limit] when len(results) > limit, results otherwise
\* a variant of Truncate: the list is returned whole
TruncateNever(results, limit) == results

Truncate(results, limit) ==
    IF Len(results) > limit THEN SubSeq(results, 1, limit) ELSE results

\* the score map after the first loop of MergeResults: a later entry of the
\* same id overwrites an earlier one
RECURSIVE MergeFts(_, _, _)
MergeFts(scores, fts, ftsWeight) ==
    IF fts = <<>> THEN scores
    ELSE LET r == Head(fts)
             entry == [r EXCEPT !.score = RMul(ftsWeight, r.score)]
         IN MergeFts([x \in DOMAIN scores \cup {r.id} |->
                         IF x = r.id THEN entry ELSE scores[x]],
                     Tail(fts), ftsWeight)

\* a variant of CombineScore: the vector score replaces the lexical one
CombineScoreOverwrite(existing, r, vecWeight) ==
    [existing EXCEPT !.score = RMul(vecWeight, r.score)]

\* how a vector result meets an entry of the same id: the weighted score is added
CombineScore(existing, r, vecWeight) ==
    [existing EXCEPT !.score = RAdd(@, RMul(vecWeight, r.score))]

\* the score map after the second loop of MergeResults
RECURSIVE MergeVec(_, _, _)
MergeVec(scores, vec, vecWeight) ==
    IF vec = <<>> THEN scores
    ELSE LET r == Head(vec)
             entry == IF r.id \in DOMAIN scores
                      THEN CombineScore(scores[r.id], r, vecWeight)
                      ELSE [r EXCEPT !.score = RMul(vecWeight, r.score)]
         IN MergeVec([x \in DOMAIN scores \cup {r.id} |->
                         IF x = r.id THEN entry ELSE scores[x]],
                     Tail(vec), vecWeight)

EmptyScores == [x \in {} |-> 0]

MergedScores(ftsResults, vecResults, ftsWeight, vecWeight) ==
    MergeVec(MergeFts(EmptyScores, normalizeScores(ftsResults), ftsWeight),
             normalizeScores(vecResults), vecWeight)

\* sort.Slice by descending score over the entries of a map: the order of
\* equal scores is not determined (map iteration, unstable sort), so every
\* descending arrangement is a possible outcome
RECURSIVE Arrangements(_)
Arrangements(S) ==
    IF S = {} THEN {<<>>}
    ELSE UNION {{<<x>> \o rest : rest \in Arrangements(S \ {x})} : x \in S}

Descending(list) ==
    \A i \in 1..(Len(list) - 1) : ~RLess(list[i].score, list[i + 1].score)

Ranked(scores) ==
    {list \in Arrangements({scores[x] : x \in DOMAIN scores}) : Descending(list)}

\* MergeResults: the set of lists it can return
MergeResults(ftsResults, vecResults, ftsWeight, vecWeight, limit) ==
    {Truncate(ranked, limit) :
        ranked \in Ranked(MergedScores(ftsResults, vecResults, ftsWeight, vecWeight))}

\* a variant of FtsSufficient: the comparison is strict
FtsSufficientStrict(n, minFTSResults) == n > minFTSResults

\* `len(ftsResults) >= minFTSResults`: enough lexical results, no embed call
FtsSufficient(n, minFTSResults) == n >= minFTSResults

Outcome(res, err, f, e, v) ==
    [res |-> res, err |-> err, ftsCalled |-> f, embedCalled |-> e, vecCalled |-> v]

\* what the FTS-only returns of TieredSearch and HybridSearch hand back
FtsOnly(fts, limit, e, v) == Outcome(Truncate(fts, limit), FALSE, 1, e, v)

\* a variant of EmbedAndMerge: the failures of the embedder and of the vector
\* search are returned to the caller
EmbedAndMergePropagating(fts, embedErr, vecErr, vec, limit) ==
    IF embedErr THEN {Outcome(<<>>, TRUE, 1, 1, 0)}
    ELSE IF vecErr THEN {Outcome(<<>>, TRUE, 1, 1, 1)}
    ELSE {Outcome(m, FALSE, 1, 1, 1) :
            m \in MergeResults(fts, vec, DefaultFTSWeight, DefaultVecWeight, limit)}

\* the embed + vector search + merge tail shared by TieredSearch and
\* HybridSearch: the set of possible outcomes
EmbedAndMerge(fts, embedErr, vecErr, vec, limit) ==
    IF embedErr THEN {FtsOnly(fts, limit, 1, 0)}
    ELSE IF vecErr THEN {FtsOnly(fts, limit, 1, 1)}
    ELSE {Outcome(m, FALSE, 1, 1, 1) :
            m \in MergeResults(fts, vec, DefaultFTSWeight, DefaultVecWeight, limit)}

\* TieredSearch: the set of possible outcomes
TieredSearch(ftsResults, ftsErr, provider, embedErr, vecResults, vecErr, limit, minFTSResults) ==
    IF ftsErr THEN {Outcome(<<>>, TRUE, 1, 0, 0)}
    ELSE LET fts == normalizeScores(ftsResults)
         IN IF FtsSufficient(Len(fts), minFTSResults) THEN {FtsOnly(fts, limit, 0, 0)}
            ELSE IF ~provider THEN {FtsOnly(fts, limit, 0, 0)}
            ELSE EmbedAndMerge(fts, embedErr, vecErr, vecResults, limit)

\* HybridSearch: the set of possible outcomes
HybridSearch(ftsResults, ftsErr, provider, embedErr, vecResults, vecErr, limit) ==
    IF ftsErr THEN {Outcome(<<>>, TRUE, 1, 0, 0)}
    ELSE LET fts == normalizeScores(ftsResults)
         IN IF ~provider THEN {FtsOnly(fts, limit, 0, 0)}
            ELSE EmbedAndMerge(fts, embedErr, vecErr, vecResults, limit)

\* time.Now() formatted, and the day: opaque tokens, no code looks inside
Today == <<"2006-01-02">>
Now == <<"2006-01-02T15:04:05Z">>

\* filepath.Join(projectDir, today + "-notes.md")
NotesPath(project) == <<"shelves/">> \o project \o <<"/">> \o Today \o <<"-notes.md">>

\* generateAnchor: lower case, runs outside [a-z0-9] become "-", "-" trimmed
AnchorChars == Elems(LowerChars) \cup Elems(<<"0", "1", "2", "3", "4", "5", "6", "7", "8", "9">>)

RECURSIVE HyphenateFrom(_, _)
HyphenateFrom(s, i) ==
    IF i > Len(s) THEN <<>>
    ELSE IF s[i] \in AnchorChars THEN <<s[i]>> \o HyphenateFrom(s, i + 1)
    ELSE <<"-">> \o HyphenateFrom(s, RunEnd(s, Elems(ByteOrder) \ AnchorChars, i))

RECURSIVE TrimHyphens(_)
TrimHyphens(s) ==
    IF s # <<>> /\ Head(s) = "-" THEN TrimHyphens(Tail(s))
    ELSE IF s # <<>> /\ s[Len(s)] = "-" THEN TrimHyphens(Slice(s, 1, Len(s) - 1))
    ELSE s

generateAnchor(title) == TrimHyphens(HyphenateFrom(ToLower(title), 1))

\* FromRaw: the item built from a raw input; id stands for uuid.New()
FromRaw(raw, project, filePath, id) ==
    [id |-> id, title |-> raw.title, what |-> raw.what, why |-> raw.why,
     impact |-> raw.impact, tags |-> raw.tags, category |-> raw.category,
     project |-> project, source |-> raw.source, filePath |-> filePath,
     sectionAnchor |-> generateAnchor(raw.title), createdAt |-> Now, updatedAt |-> Now]

Raw(title, what, why, impact, tags, category, details, source) ==
    [title |-> title, what |-> what, why |-> why, impact |-> impact, tags |-> tags,
     category |-> category, details |-> details, source |-> source]

(***************************************************************************)
(* Relational Store: internal/db.  The items table is a function from      *)
(* rowid to row, item_details a function from item id to body, and the     *)
(* FTS5 index (external content, maintained by the triggers items_ai and   *)
(* items_au) a function from rowid to the indexed document.  No trigger    *)
(* tells the index of a deleted row: db.gone keeps what the index still    *)
(* holds of such rows.                                                     *)
(***************************************************************************)
Digits == <<"0", "1", "2", "3", "4", "5", "6", "7", "8", "9">>
TokenChars == Elems(LowerChars) \cup Elems(UpperChars) \cup Elems(Digits)

\* tokenize='porter unicode61', first stage: the maximal runs of letters and
\* digits, in lower case
RECURSIVE RawTokens(_, _)
RawTokens(s, i) ==
    IF i > Len(s) THEN <<>>
    ELSE IF s[i] \in TokenChars
    THEN LET e == RunEnd(s, TokenChars, i)
         IN <<ToLower(SubSeq(s, i, e - 1))>> \o RawTokens(s, e)
    ELSE RawTokens(s, i + 1)

\* second stage, the Porter stemmer, on the words that occur in this model:
\* it shortens these three and leaves the others (null, pattern, bug,
\* context, ghp and every word of one or two letters) unchanged
Stem(tok) ==
    CASE tok = <<"r", "e", "d", "a", "c", "t", "e", "d">> -> <<"r", "e", "d", "a", "c", "t">>
      [] tok = <<"d", "e", "c", "i", "s", "i", "o", "n">> -> <<"d", "e", "c", "i", "s">>
      [] tok = <<"l", "e", "a", "r", "n", "i", "n", "g">> -> <<"l", "e", "a", "r", "n">>
      [] OTHER -> tok

Tokenize(text) ==
    LET raw == RawTokens(text, 1)
    IN [i \in 1..Len(raw) |-> Stem(raw[i])]

TokenizePtr(p) == IF p = NilPtr THEN <<>> ELSE Tokenize(p[1])

\* a nil slice for an empty list, as the callers of Store pass it
SliceOf(list) == IF list = <<>> THEN NilPtr ELSE Ptr(list)

\* json.Marshal of a []string whose elements need no escaping
jsonMarshal(slice) ==
    IF slice = NilPtr THEN <<"n", "u", "l", "l">>
    ELSE <<"[">> \o Join([i \in 1..Len(slice[1]) |-> <<"\"">> \o slice[1][i] \o <<"\"">>], <<",">>)
         \o <<"]">>

\* json.Unmarshal into a []string: the inverse on such texts
jsonUnmarshal(text) ==
    IF text = <<"n", "u", "l", "l">> \/ text = <<"[", "]">> THEN <<>>
    ELSE LET parts == Split(Slice(text, 2, Len(text) - 1), <<",">>)
         IN [i \in 1..Len(parts) |-> Slice(parts[i], 2, Len(parts[i]) - 1)]

CategoryName ==
    [c \in Elems(ValidCategories) |->
        CASE c = "decision" -> <<"d", "e", "c", "i", "s", "i", "o", "n">>
          [] c = "pattern" -> <<"p", "a", "t", "t", "e", "r", "n">>
          [] c = "bug" -> <<"b", "u", "g">>
          [] c = "context" -> <<"c", "o", "n", "t", "e", "x", "t">>
          [] c = "learning" -> <<"l", "e", "a", "r", "n", "i", "n", "g">>]

\* ItemModel.FromItem: the row of an item
FromItem(item, tagsJSON) ==
    [id |-> item.id, title |-> item.title, what |-> item.what, why |-> item.why,
     impact |-> item.impact, tags |-> tagsJSON, category |-> item.category,
     project |-> item.project, source |-> item.source, filePath |-> item.filePath,
     sectionAnchor |-> item.sectionAnchor, createdAt |-> item.createdAt,
     updatedAt |-> item.updatedAt, updatedCount |-> 0]

\* ItemModel.ToItem, then the tags parsed from their JSON text
ToItem(row) ==
    [id |-> row.id, title |-> row.title, what |-> row.what, why |-> row.why,
     impact |-> row.impact, tags |-> jsonUnmarshal(row.tags), category |-> row.category,
     project |-> row.project, source |-> row.source, filePath |-> row.filePath,
     sectionAnchor |-> row.sectionAnchor, createdAt |-> row.createdAt,
     updatedAt |-> row.updatedAt]

\* what the triggers hand to the index for a row: the token lists of the
\* columns title, what, why, impact, tags, category, project, source
FtsDoc(row) ==
    <<Tokenize(row.title), Tokenize(row.what), TokenizePtr(row.why),
      TokenizePtr(row.impact), Tokenize(row.tags),
      IF row.category = NilPtr THEN <<>> ELSE Tokenize(CategoryName[row.category[1]]),
      Tokenize(row.project), TokenizePtr(row.source)>>

\* the index entries of a document: <<term, column, position>>
Postings(doc) == UNION {{<<doc[c][i], c, i>> : i \in 1..Len(doc[c])} : c \in 1..Len(doc)}

Terms(doc) == {p[1] : p \in Postings(doc)}

\* entries written for a rowid replace the older entries of the same terms
\* for that rowid
Supersede(post, rowid, terms) ==
    IF rowid \in DOMAIN post
    THEN [post EXCEPT ![rowid] = {p \in @ : p[1] \notin terms}]
    ELSE post

\* the rowid SQLite gives a new row of a table without an integer key
NextRowid(rows) ==
    IF DOMAIN rows = {} THEN 1
    ELSE (CHOOSE r \in DOMAIN rows : \A q \in DOMAIN rows : q <= r) + 1

Extend(f, k, v) == [x \in DOMAIN f \cup {k} |-> IF x = k THEN v ELSE f[x]]

Remove(f, k) == [x \in DOMAIN f \ {k} |-> f[x]]

\* InsertItem: the item row (and with it, by trigger items_ai, the index
\* document), then the detail row when details are given
InsertItem(db, item, details) ==
    LET rowid == NextRowid(db.items)
        row == FromItem(item, jsonMarshal(SliceOf(item.tags)))
    IN [db EXCEPT !.items = Extend(@, rowid, row),
                  !.fts = Extend(@, rowid, FtsDoc(row)),
                  !.gone.post = Supersede(@, rowid, Terms(FtsDoc(row))),
                  !.details = IF details = NilPtr THEN @ ELSE Extend(@, item.id, details[1])]

\* the rowid InsertItem reads back for the item
RowidOf(db, id) == CHOOSE r \in DOMAIN db.items : db.items[r].id = id

HasItem(db, id) == \E r \in DOMAIN db.items : db.items[r].id = id

\* GetItem: <<found, item, hasDetails>>
GetItem(db, itemID) ==
    IF HasItem(db, itemID)
    THEN <<TRUE, ToItem(db.items[RowidOf(db, itemID)]), itemID \in DOMAIN db.details>>
    ELSE <<FALSE, NilPtr, FALSE>>

\* SQLite's LIKE: "%" stands for any text, "_" for any one character, and
\* letters match in either case
RECURSIVE LikeMatch(_, _)
LikeMatch(text, pattern) ==
    IF pattern = <<>> THEN text = <<>>
    ELSE IF Head(pattern) = "%"
    THEN \E k \in 0..Len(text) : LikeMatch(SubSeq(text, k + 1, Len(text)), Tail(pattern))
    ELSE /\ text # <<>>
         /\ Head(pattern) = "_" \/ LowerChar(Head(pattern)) = LowerChar(Head(text))
         /\ LikeMatch(Tail(text), Tail(pattern))

\* a variant of UpdateItem: why and impact are written as given, also when
\* they are nil
UpdateItemClearing(db, itemID, what, why, impact, tags, detailsAppend) ==
    LET m == {r \in DOMAIN db.items : LikeMatch(db.items[r].id, itemID \o <<"%">>)}
        r == IF m = {} THEN 0
             ELSE CHOOSE x \in m : \A q \in m \ {x} : StrLess(db.items[x].id, db.items[q].id)
        old == db.items[r]
        new == [old EXCEPT !.updatedCount = @ + 1,
                           !.updatedAt = Now,
                           !.what = IF what # NilPtr THEN what[1] ELSE @,
                           !.why = why,
                           !.impact = impact,
                           !.tags = IF tags # NilPtr THEN jsonMarshal(tags) ELSE @]
    IN IF r = 0 THEN db
       ELSE [db EXCEPT !.items[r] = new,
                       !.fts = Extend(Remove(@, r), r, FtsDoc(new)),
                       !.details =
                           IF detailsAppend = NilPtr THEN @
                           ELSE IF old.id \in DOMAIN @
                           THEN [@ EXCEPT ![old.id] = @ \o <<NL, NL>> \o detailsAppend[1]]
                           ELSE Extend(@, old.id, detailsAppend[1])]

\* `id LIKE itemID%` ... First: the matching row with the least id
ResolvePrefix(db, itemID) ==
    LET m == {r \in DOMAIN db.items : LikeMatch(db.items[r].id, itemID \o <<"%">>)}
    IN IF m = {} THEN 0
       ELSE CHOOSE r \in m : \A q \in m \ {r} : StrLess(db.items[r].id, db.items[q].id)

\* UpdateItem on a resolved row: the fields given, the counter, the index
\* document (trigger items_au), then the detail body
UpdateItem(db, itemID, what, why, impact, tags, detailsAppend) ==
    LET r == ResolvePrefix(db, itemID)
        old == db.items[r]
        new == [old EXCEPT !.updatedCount = @ + 1,
                           !.updatedAt = Now,
                           !.what = IF what # NilPtr THEN what[1] ELSE @,
                           !.why = IF why # NilPtr THEN why ELSE @,
                           !.impact = IF impact # NilPtr THEN impact ELSE @,
                           !.tags = IF tags # NilPtr THEN jsonMarshal(tags) ELSE @]
    IN IF r = 0 THEN db
       ELSE [db EXCEPT !.items[r] = new,
                       !.fts = Extend(Remove(@, r), r, FtsDoc(new)),
                       !.gone.post = Supersede(@, r, Terms(FtsDoc(old)) \cup Terms(FtsDoc(new))),
                       !.details =
                           IF detailsAppend = NilPtr THEN @
                           ELSE IF old.id \in DOMAIN @
                           THEN [@ EXCEPT ![old.id] = @ \o <<NL, NL>> \o detailsAppend[1]]
                           ELSE Extend(@, old.id, detailsAppend[1])]

\* CountItems with an optional project filter
CountItems(db, project) ==
    Cardinality({r \in DOMAIN db.items :
                    project = NilPtr \/ db.items[r].project = project[1]})

\* splitQuery: the terms between spaces, tabs and line breaks
RECURSIVE splitQuery(_)
splitQuery(query) ==
    LET seps == {" ", "\t", NL}
        start == RunEnd(query, seps, 1)
        stop == RunEnd(query, Elems(query) \ seps, start)
    IN IF start > Len(query) THEN <<>>
       ELSE <<SubSeq(query, start, stop - 1)>>
            \o splitQuery(SubSeq(query, stop, Len(query)))

\* the FTS5 phrases of the query `"t1"* OR "t2"* ...`: the tokens of each
\* term, the last of them a prefix (terms hold no double quote in this model)
QueryPhrases(query) ==
    LET terms == splitQuery(query)
    IN [i \in 1..Len(terms) |-> Tokenize(terms[i])]

\* the occurrences of a phrase in one column
PhraseHitsIn(col, phrase) ==
    IF phrase = <<>> THEN 0
    ELSE Cardinality({i \in 1..(Len(col) - Len(phrase) + 1) :
            /\ \A k \in 1..(Len(phrase) - 1) : col[i + k - 1] = phrase[k]
            /\ HasPrefix(col[i + Len(phrase) - 1], phrase[Len(phrase)])})

RECURSIVE SumSeq(_)
SumSeq(s) == IF s = <<>> THEN 0 ELSE Head(s) + SumSeq(Tail(s))

\* the occurrences of a phrase in a document
PhraseHits(doc, phrase) == SumSeq([c \in 1..Len(doc) |-> PhraseHitsIn(doc[c], phrase)])

\* the number of tokens of a document
DocSize(doc) == SumSeq([c \in 1..Len(doc) |-> Len(doc[c])])

RECURSIVE SumOver(_, _)
SumOver(S, f) ==
    IF S = {} THEN 0
    ELSE LET x == CHOOSE y \in S : TRUE IN f[x] + SumOver(S \ {x}, f)

\* bm25: the inverse document frequency of a phrase found in nHit of nRow
\* documents, ln((nRow - nHit + 0.5) / (nHit + 0.5)) in thousandths; 0 stands
\* for the value 1e-6 that FTS5 puts in place of a logarithm <= 0
IdfMilli(nRow, nHit) ==
    IF nRow <= 2 * nHit THEN 0
    ELSE CASE nHit = 0 -> 9999
           [] nRow = 3 /\ nHit = 1 -> 511
           [] nRow = 4 /\ nHit = 1 -> 847
           [] nRow = 5 /\ nHit = 1 -> 1099
           [] nRow = 5 /\ nHit = 2 -> 336
           [] nRow = 6 /\ nHit = 1 -> 1299
           [] nRow = 6 /\ nHit = 2 -> 788

\* bm25: freq * (k1 + 1) / (freq + k1 * (1 - b + b * size / avgdl)) with
\* k1 = 1.2, b = 0.75 and avgdl = nToken / nRow, in ten-thousandths
TermFactor(freq, size, nRow, nToken) ==
    (22 * freq * nToken * 10000) \div (10 * freq * nToken + 3 * nToken + 9 * size * nRow)

\* the occurrences of a phrase among index entries
PostingHits(post, phrase) ==
    LET n == Len(phrase)
    IN IF n = 0 THEN 0
       ELSE Cardinality({s \in {<<p[2], p[3]>> : p \in post} :
               /\ \A k \in 1..(n - 1) : <<phrase[k], s[1], s[2] + k - 1>> \in post
               /\ \E p \in post : /\ p[2] = s[1]
                                  /\ p[3] = s[2] + n - 1
                                  /\ HasPrefix(p[1], phrase[n])})

\* the occurrences of a phrase the index holds for a rowid
IndexHits(db, r, phrase) ==
    IF r \notin DOMAIN db.gone.post
    THEN PhraseHits(db.fts[r], phrase)
    ELSE PostingHits(db.gone.post[r]
                     \cup (IF r \in DOMAIN db.fts THEN Postings(db.fts[r]) ELSE {}), phrase)

\* A score is a pair <<hi, lo>> that stands for hi * 1e-7 + lo * 1e-10: hi sums
\* the phrases with a positive logarithm, lo those with the value 1e-6.  The
\* row and token totals of the index count the documents of deleted rows.
Bm25(db, r, phrases) ==
    LET fts == db.fts
        doc == fts[r]
        nRow == Cardinality(DOMAIN fts) + db.gone.rows
        nToken == SumOver(DOMAIN fts, [q \in DOMAIN fts |-> DocSize(fts[q])]) + db.gone.tokens
        nHit(ph) == Cardinality({q \in DOMAIN fts \cup DOMAIN db.gone.post :
                                    IndexHits(db, q, ph) > 0})
        factor(ph) == TermFactor(IndexHits(db, r, ph), DocSize(doc), nRow, nToken)
        idf(ph) == IdfMilli(nRow, nHit(ph))
    IN <<SumSeq([i \in 1..Len(phrases) |-> idf(phrases[i]) * factor(phrases[i])]),
         SumSeq([i \in 1..Len(phrases) |->
                    IF idf(phrases[i]) = 0 THEN factor(phrases[i]) ELSE 0])>>

\* num * a >= den * b for scores a and b
ScaledGeq(num, a, den, b) ==
    LET d == num * a[1] - den * b[1]
    IN IF d > 1000 THEN TRUE
       ELSE IF d < -1000 THEN FALSE
       ELSE 1000 * d + num * a[2] - den * b[2] >= 0

ScoreGeq(a, b) == ScaledGeq(1, a, 1, b)

ScorePositive(a) == a[1] > 0 \/ a[2] > 0

\* the SearchResult of a row
ToResult(db, row, score) ==
    [id |-> row.id, title |-> row.title, what |-> row.what, why |-> row.why,
     impact |-> row.impact, category |-> row.category, tags |-> jsonUnmarshal(row.tags),
     project |-> row.project, source |-> row.source, score |-> score,
     hasDetails |-> row.id \in DOMAIN db.details, filePath |-> row.filePath,
     createdAt |-> row.createdAt]

\* the rows FTSSearch selects: index documents that match a phrase, joined
\* to the item of the same rowid, under the filters
FtsMatches(db, phrases, project, source) ==
    {r \in DOMAIN db.fts \cap DOMAIN db.items :
        /\ \E i \in 1..Len(phrases) : IndexHits(db, r, phrases[i]) > 0
        /\ project = NilPtr \/ db.items[r].project = project[1]
        /\ source = NilPtr \/ db.items[r].source = source}

ScoreDescending(list) ==
    \A i \in 1..(Len(list) - 1) : ScoreGeq(list[i].score, list[i + 1].score)

\* FTSSearch: [err, lists], lists being the result lists it can return (rows
\* of equal rank come in an order SQL does not fix).  A query without a
\* term is an FTS5 syntax error.
FTSSearch(db, query, limit, project, source) ==
    LET phrases == QueryPhrases(query)
        rows == FtsMatches(db, phrases, project, source)
        results == {ToResult(db, db.items[r], Bm25(db, r, phrases)) : r \in rows}
    IN IF phrases = <<>> THEN [err |-> TRUE, lists |-> {<<>>}]
       ELSE [err |-> FALSE,
             lists |-> {Truncate(l, limit) :
                          l \in {a \in Arrangements(results) : ScoreDescending(a)}}]

\* a variant of EnsureVecTable: the dimension asked for is recorded before
\* it is compared
EnsureVecTableRecording(db, dim) ==
    [err |-> db.dim # NilPtr /\ db.dim # Ptr(dim),
     db |-> [db EXCEPT !.dim = Ptr(dim), !.vecTable = @ \/ db.dim = NilPtr]]

\* getEmbeddingDim, SetEmbeddingDim and createVecTable
EnsureVecTable(db, dim) ==
    IF db.dim = NilPtr
    THEN [err |-> FALSE, db |-> [db EXCEPT !.dim = Ptr(dim), !.vecTable = TRUE]]
    ELSE IF db.dim[1] # dim THEN [err |-> TRUE, db |-> db]
    ELSE [err |-> FALSE, db |-> db]

\* InsertVector: nothing without the table; a rowid already present is
\* refused by the table's primary key
InsertVector(db, rowid, embedding) ==
    IF ~db.vecTable \/ rowid \in DOMAIN db.vec THEN db
    ELSE [db EXCEPT !.vec = Extend(@, rowid, embedding)]

EmptyFn == [x \in {} |-> <<>>]

\* the database after migrate() on a new file
NewDB ==
    [items |-> EmptyFn, details |-> EmptyFn, fts |-> EmptyFn,
     dim |-> NilPtr, vecTable |-> FALSE, vec |-> EmptyFn,
     gone |-> [post |-> EmptyFn, rows |-> 0, tokens |-> 0]]

RECURSIVE SortedRowids(_)
SortedRowids(S) ==
    IF S = {} THEN <<>>
    ELSE LET m == CHOOSE x \in S : \A y \in S : x <= y
         IN <<m>> \o SortedRowids(S \ {m})

HasVecTable(db) == db.vecTable

\* DROP TABLE IF EXISTS items_vec
DropVecTable(db) == [db EXCEPT !.vecTable = FALSE, !.vec = EmptyFn]

\* SetEmbeddingDim: the dimension saved in the meta table
SetEmbeddingDim(db, dim) == [db EXCEPT !.dim = Ptr(dim)]

\* migrate() when the database file is opened again: the vector table is
\* created if the dimension is known
migrate(db) == IF db.dim # NilPtr THEN [db EXCEPT !.vecTable = TRUE] ELSE db

\* InsertItem with a statement that fails: "item" is the Create of the item
\* row, "rowid" the SELECT of its rowid, "detail" the Create of the detail
\* row.  No transaction joins the statements.
InsertItemSteps(db, item, details, fault) ==
    LET done == InsertItem(db, item, details)
        itemOnly == InsertItem(db, item, NilPtr)
    IN CASE fault = "item" -> [err |-> TRUE, db |-> db]
         [] fault = "rowid" -> [err |-> TRUE, db |-> itemOnly]
         [] fault = "detail" /\ details # NilPtr -> [err |-> TRUE, db |-> itemOnly]
         [] OTHER -> [err |-> FALSE, db |-> done]

\* UpdateItem with a statement that fails: "lookup" is the resolution of
\* the id, "update" the Updates of the item row, "detail" the Save or
\* Create of the detail row, whose error is not looked at
UpdateItemSteps(db, itemID, what, why, impact, tags, detailsAppend, fault) ==
    LET done == UpdateItem(db, itemID, what, why, impact, tags, detailsAppend)
    IN IF fault = "lookup" \/ ResolvePrefix(db, itemID) = 0 \/ fault = "update"
       THEN [err |-> TRUE, db |-> db]
       ELSE IF fault = "detail"
       THEN [err |-> FALSE, db |-> [done EXCEPT !.details = db.details]]
       ELSE [err |-> FALSE, db |-> done]

\* DeleteItem: the detail row (its error is not looked at), then the item
\* row; the index and the vector table are not told.  "lookup", "detail"
\* and "item" are the statements that can fail.
DeleteItem(db, itemID, fault) ==
    LET r == ResolvePrefix(db, itemID)
        fullID == db.items[r].id
        d1 == IF fault = "detail" \/ fullID \notin DOMAIN db.details THEN db
              ELSE [db EXCEPT !.details = Remove(@, fullID)]
        left == Postings(db.fts[r])
                \cup (IF r \in DOMAIN db.gone.post THEN db.gone.post[r] ELSE {})
        d2 == [d1 EXCEPT !.items = Remove(@, r),
                         !.fts = Remove(@, r),
                         !.gone = [post |-> Extend(@.post, r, left),
                                   rows |-> @.rows + 1,
                                   tokens |-> @.tokens + DocSize(db.fts[r])]]
    IN IF fault = "lookup" THEN [deleted |-> FALSE, err |-> TRUE, db |-> db]
       ELSE IF r = 0 THEN [deleted |-> FALSE, err |-> FALSE, db |-> db]
       ELSE IF fault = "item" THEN [deleted |-> FALSE, err |-> TRUE, db |-> d1]
       ELSE [deleted |-> TRUE, err |-> FALSE, db |-> d2]

\* GetDetails: `item_id LIKE itemID%` ... First, the matching detail row
\* with the least item id, or nil
GetDetails(db, itemID) ==
    LET m == {k \in DOMAIN db.details : HasPrefix(k, itemID)}
    IN IF m = {} THEN NilPtr
       ELSE LET k == CHOOSE x \in m : \A y \in m \ {x} : StrLess(x, y)
            IN Ptr([itemID |-> k, body |-> db.details[k]])

\* VectorSearch with a limit that no count of vectors exceeds: the ids of the
\* items joined by rowid to a stored vector
VectorSearch(db, project) ==
    IF ~HasVecTable(db) THEN {}
    ELSE {db.items[r].id : r \in {q \in DOMAIN db.vec \cap DOMAIN db.items :
                                     project = NilPtr \/ db.items[q].project = project[1]}}

\* ListRecent with a limit that no count of items exceeds: the ids listed
ListRecent(db, project) ==
    {db.items[r].id : r \in {q \in DOMAIN db.items :
                                project = NilPtr \/ db.items[q].project = project[1]}}

\* ListAllForReindex: the rowids in ascending order
ListAllForReindex(db) == SortedRowids(DOMAIN db.items)

(***************************************************************************)
(* Orchestrator: internal/core Service.Store                               *)
(***************************************************************************)
\* a variant of DedupScoreThreshold: a threshold no normalized score reaches
DedupScoreThresholdNever == <<11, 10>>

\* DedupScoreThreshold = 0.7, as <<numerator, denominator>>
DedupScoreThreshold == <<7, 10>>

\* the configured ignore patterns, compiled by NewService
IgnorePatterns == <<[valid |-> TRUE, lit |-> <<"z", "z">>]>>

compiledIgnore == CompilePatterns(IgnorePatterns)

RedactPtr(p) == IF p = NilPtr THEN NilPtr ELSE Ptr(RedactCompiled(p[1], compiledIgnore))

\* Store, lines 148-161: what, why, impact and details are redacted
RedactRaw(raw) ==
    [raw EXCEPT !.what = RedactCompiled(@, compiledIgnore),
                !.why = RedactPtr(@),
                !.impact = RedactPtr(@),
                !.details = RedactPtr(@)]

\* a variant of mergeTags: the extra tags are dropped
mergeTagsKeepExisting(existing, extra) == existing

\* mergeTags: the existing tags, then the extra ones not yet present
\* (compared in lower case)
RECURSIVE mergeTags(_, _)
mergeTags(existing, extra) ==
    IF extra = <<>> THEN existing
    ELSE IF \E t \in Elems(existing) : ToLower(t) = ToLower(Head(extra))
    THEN mergeTags(existing, Tail(extra))
    ELSE mergeTags(Append(existing, Head(extra)), Tail(extra))

\* fmt.Sprintf("%s %s", raw.Title, raw.What)
DedupQuery(raw) == raw.title \o <<" ">> \o raw.what

\* a variant of NormalizedReaches: every candidate reaches the threshold
NormalizedReachesAlways(top, maxScore) == TRUE

\* normalized >= DedupScoreThreshold, normalized being top.Score / maxScore,
\* or 0 when maxScore is not positive
\* a variant of NormalizedReaches: the score of the candidate itself is
\* compared with the threshold
NormalizedReachesRaw(top, maxScore) ==
    ScaledGeq(DedupScoreThreshold[2], top, DedupScoreThreshold[1], <<10000000, 0>>)

NormalizedReaches(top, maxScore) ==
    /\ ScorePositive(maxScore)
    /\ ScaledGeq(DedupScoreThreshold[2], top, DedupScoreThreshold[1], maxScore)

titleMatch(a, b) == EqualFold(TrimSpace(a), TrimSpace(b))

\* the dedup decision for a redacted input: a pointer to the candidate to
\* update, or nil for the create path; one outcome per way the two probes
\* can come back
DedupDecisions(db, raw, project) ==
    LET candidates == FTSSearch(db, DedupQuery(raw), 5, Ptr(project), NilPtr)
        broad == FTSSearch(db, DedupQuery(raw), 5, NilPtr, NilPtr)
        tops == IF candidates.err THEN {}
                ELSE {c[1] : c \in {l \in candidates.lists : l # <<>>}}
        maxScores == IF broad.err THEN {<<0, 0>>}
                     ELSE {IF l = <<>> THEN <<0, 0>> ELSE l[1].score : l \in broad.lists}
    IN IF tops = {} THEN {NilPtr}
       ELSE {IF NormalizedReaches(top.score, m) /\ titleMatch(raw.title, top.title)
             THEN Ptr(top) ELSE NilPtr : top \in tops, m \in maxScores}

\* provider.Embed: a vector computed from the text
Embed(text) == <<text, text>>

\* fmt.Sprintf("%s %s %s %s %s", title, what, why, impact, tags joined)
getString(p) == IF p = NilPtr THEN <<>> ELSE p[1]

EmbedText(item) ==
    item.title \o <<" ">> \o item.what \o <<" ">> \o getString(item.why) \o <<" ">>
    \o getString(item.impact) \o <<" ">> \o Join(item.tags, <<" ">>)

\* uuid.New(): the n-th identifier handed out
NewId(n) == <<"u", Digits[n + 1]>>

\* a variant of the update path: after UpdateItem, the item is embedded
\* again and the vector inserted
StoreUpdateEmbedding(db, raw, top) ==
    LET mergedTags == mergeTags(top.tags, raw.tags)
        updated == UpdateItem(db, top.id, Ptr(raw.what), raw.why, raw.impact,
                              Ptr(mergedTags), NilPtr)
        rowid == RowidOf(updated, top.id)
        ensured == EnsureVecTable(updated, 2)
    IN IF ensured.err THEN updated
       ELSE InsertVector(ensured.db, rowid,
                         <<EmbedText(ToItem(updated.items[rowid])),
                           EmbedText(ToItem(updated.items[rowid]))>>)

\* the update path of Store for the candidate top
StoreUpdate(db, raw, top) ==
    LET mergedTags == mergeTags(top.tags, raw.tags)
        detailsAppend == IF raw.details # NilPtr
                         THEN <<"-", "-", "-", " ", "u", "p", "d", "a", "t", "e", "d", " ">> \o Today \o <<" ", "-", "-", "-">> \o <<NL>> \o raw.details[1]
                         ELSE <<>>
    IN UpdateItem(db, top.id, Ptr(raw.what), raw.why, raw.impact, Ptr(mergedTags),
                  Ptr(detailsAppend))

\* the embedding step of the create path: EnsureVecTable, then InsertVector
StoreVector(db, rowid, embedding) ==
    LET ensured == EnsureVecTable(db, Len(embedding))
    IN IF ensured.err THEN db ELSE InsertVector(ensured.db, rowid, embedding)

(***************************************************************************)
(* SpecSearch: TieredSearch, HybridSearch and MergeResults called with     *)
(* test doubles that return bounded result lists                           *)
(***************************************************************************)
MaxFtsLen == 3
MaxVecLen == 1
MaxLimit == 2

ResultIds == {"a", "b", "c"}
RawScores == {-1, 0, 2}

\* result lists of at most n entries with distinct ids
RECURSIVE ResultLists(_)
ResultLists(n) ==
    IF n = 0 THEN {<<>>}
    ELSE LET shorter == ResultLists(n - 1)
         IN shorter \cup
            UNION {{Append(l, [id |-> x, score |-> RInt(sc)]) :
                        x \in ResultIds \ {l[i].id : i \in 1..Len(l)},
                        sc \in RawScores} :
                   l \in {y \in shorter : Len(y) = n - 1}}

FtsLists == ResultLists(MaxFtsLen)
VecLists == ResultLists(MaxVecLen)

WeightChoices == {<<DefaultFTSWeight, DefaultVecWeight>>, <<Rat(1, 2), Rat(1, 2)>>}

NoOutcome == Outcome(<<>>, FALSE, 0, 0, 0)

SearchIdle ==
    /\ sOp = "none"
    /\ sFts = <<>>
    /\ sFtsErr = FALSE
    /\ sVec = <<>>
    /\ sVecErr = FALSE
    /\ sProvider = FALSE
    /\ sEmbedErr = FALSE
    /\ sLimit = 0
    /\ sMin = DefaultMinFTSResults
    /\ sWeights = <<DefaultFTSWeight, DefaultVecWeight>>
    /\ sOut = NoOutcome

RedactIdle ==
    /\ rIn = <<>>
    /\ rPats = <<>>
    /\ rOut = <<>>
    /\ rOut2 = <<>>
    /\ rPc = "in"

Projects == {<<"p">>, <<"q">>}

NoFiles == [p \in Projects |-> <<>>]

ShelfIdle ==
    /\ shelf = NoFiles
    /\ shelfLog = <<>>

StoreIdle ==
    /\ svcDb = NewDB
    /\ svcProvider = "unset"
    /\ idCount = 0
    /\ storeLog = <<>>

MaxCallers == 3

Callers == 1..MaxCallers

\* the zero value of a sync.Once and of the field it guards
OnceZero == [done |-> 0, lock |-> 0, calls |-> 0, writing |-> FALSE, value |-> "zero"]

OnceIdle ==
    /\ oPc = [t \in Callers |-> "idle"]
    /\ oKind = [t \in Callers |-> "none"]
    /\ oOnce = [k \in {"emb", "vec"} |-> OnceZero]
    /\ oRet = [t \in Callers |-> "none"]
    /\ oRaced = FALSE

NoOp == [name |-> "none"]

OpIdle ==
    /\ svcOp = NoOp
    /\ svcDim = 0
    /\ svcSteps = 0

MoreIdle == OpIdle /\ OnceIdle

InitSearch == SearchIdle /\ RedactIdle /\ ShelfIdle /\ StoreIdle /\ MoreIdle

\* the doubles' settings for one call; a double that is not reached keeps
\* its zero value
SetDoubles(op, fts, ftsErr, provider, embedErr, vec, vecErr, limit, min, w) ==
    /\ sOp' = op
    /\ sFts' = fts
    /\ sFtsErr' = ftsErr
    /\ sProvider' = provider
    /\ sEmbedErr' = embedErr
    /\ sVec' = vec
    /\ sVecErr' = vecErr
    /\ sLimit' = limit
    /\ sMin' = min
    /\ sWeights' = w

CallTieredSearch ==
    /\ sOp = "none"
    /\ \E fts \in FtsLists, ftsErr, provider, embedErr, vecErr \in BOOLEAN,
       vec \in VecLists, limit \in 0..MaxLimit, min \in 1..DefaultMinFTSResults :
        /\ ftsErr => fts = <<>>
        /\ ~provider => ~embedErr
        /\ (embedErr \/ ~provider \/ ftsErr) => (vec = <<>> /\ ~vecErr)
        /\ vecErr => vec = <<>>
        /\ SetDoubles("tiered", fts, ftsErr, provider, embedErr, vec, vecErr, limit,
                      min, <<DefaultFTSWeight, DefaultVecWeight>>)
        /\ sOut' \in TieredSearch(fts, ftsErr, provider, embedErr, vec, vecErr, limit, min)
        /\ UNCHANGED <<redactVars, shelfVars, storeVars, moreVars>>

CallHybridSearch ==
    /\ sOp = "none"
    /\ \E fts \in FtsLists, ftsErr, provider, embedErr, vecErr \in BOOLEAN,
       vec \in VecLists, limit \in 0..MaxLimit :
        /\ ftsErr => fts = <<>>
        /\ ~provider => ~embedErr
        /\ (embedErr \/ ~provider \/ ftsErr) => (vec = <<>> /\ ~vecErr)
        /\ vecErr => vec = <<>>
        /\ SetDoubles("hybrid", fts, ftsErr, provider, embedErr, vec, vecErr, limit,
                      DefaultMinFTSResults, <<DefaultFTSWeight, DefaultVecWeight>>)
        /\ sOut' \in HybridSearch(fts, ftsErr, provider, embedErr, vec, vecErr, limit)
        /\ UNCHANGED <<redactVars, shelfVars, storeVars, moreVars>>

CallMergeResults ==
    /\ sOp = "none"
    /\ \E fts \in FtsLists, vec \in VecLists, limit \in 0..MaxLimit, w \in WeightChoices :
        /\ SetDoubles("merge", fts, FALSE, FALSE, FALSE, vec, FALSE, limit,
                      DefaultMinFTSResults, w)
        /\ \E m \in MergeResults(fts, vec, w[1], w[2], limit) :
              sOut' = Outcome(m, FALSE, 0, 0, 0)
        /\ UNCHANGED <<redactVars, shelfVars, storeVars, moreVars>>

NextSearch == CallTieredSearch \/ CallHybridSearch \/ CallMergeResults

SpecSearch == InitSearch /\ [][NextSearch]_vars

(***************************************************************************)
(* Properties of the Hybrid Search Engine                                  *)
(***************************************************************************)
Min2(a, b) == IF a < b THEN a ELSE b

\* the largest raw score of a non-empty list handed in by a double
TopScore(list) ==
    CHOOSE m \in {list[i].score : i \in 1..Len(list)} :
        \A i \in 1..Len(list) : RLeq(list[i].score, m)

\* res is the lexical list cut to the limit, same ids in the same order, each
\* score divided by the list's largest score when that is positive
IsFtsPrefix(res, fts, limit) ==
    /\ Len(res) = Min2(Len(fts), limit)
    /\ \A i \in 1..Len(res) :
          /\ res[i].id = fts[i].id
          /\ IF RLess(RZero, TopScore(fts))
             THEN RMul(res[i].score, TopScore(fts)) = fts[i].score
             ELSE res[i].score = fts[i].score

\* C6: in TieredSearch, whenever FTSSearch returns at least minFTSResults
\* results, Embed and VectorSearch are never invoked and the returned list is
\* the FTS results, in FTS order, truncated to limit.
TieredShortCircuit ==
    (sOp = "tiered" /\ ~sFtsErr /\ Len(sFts) >= sMin) =>
        /\ sOut.embedCalled = 0
        /\ sOut.vecCalled = 0
        /\ ~sOut.err
        /\ IsFtsPrefix(sOut.res, sFts, sLimit)

\* a configured provider, exactly minFTSResults results, more than the limit
TieredShortCircuitWitness ==
    /\ sOp = "tiered"
    /\ sProvider
    /\ ~sEmbedErr
    /\ Len(sFts) = sMin
    /\ Len(sFts) > sLimit
    /\ sLimit > 0
    /\ sOut.embedCalled = 0

\* C7: in TieredSearch and HybridSearch a failing Embed yields the FTS results
\* without error and without a VectorSearch call, a failing VectorSearch yields
\* the FTS results without error, and only an FTSSearch failure is returned
\* as an error.
SearchFallback ==
    sOp \in {"tiered", "hybrid"} =>
        /\ sOut.err <=> sFtsErr
        /\ (~sFtsErr /\ sProvider /\ sEmbedErr) =>
              (sOut.vecCalled = 0 /\ IsFtsPrefix(sOut.res, sFts, sLimit))
        /\ (~sFtsErr /\ sProvider /\ ~sEmbedErr /\ sVecErr) =>
              IsFtsPrefix(sOut.res, sFts, sLimit)

\* Embed was called and failed, and a non-empty list came back
SearchFallbackWitness ==
    /\ sOp = "tiered"
    /\ sOut.embedCalled = 1
    /\ sEmbedErr
    /\ Len(sOut.res) > 0
    /\ ~sOut.err

\* the normalized score of id in a list of a double: its score over the
\* list's largest score, or its score when the largest is not positive
HasId(list, id) == \E i \in 1..Len(list) : list[i].id = id

NormOf(list, id) ==
    LET r == list[CHOOSE i \in 1..Len(list) : list[i].id = id]
    IN IF RLess(RZero, TopScore(list)) THEN RDiv(r.score, TopScore(list)) ELSE r.score

ExpectedScore(id) ==
    LET f == IF HasId(sFts, id) THEN RMul(sWeights[1], NormOf(sFts, id)) ELSE RZero
        v == IF HasId(sVec, id) THEN RMul(sWeights[2], NormOf(sVec, id)) ELSE RZero
    IN RAdd(f, v)

\* C8: MergeResults normalizes each list by its own maximum (skipped for an
\* empty list or a maximum <= 0) and scores an id ftsWeight*normFTS when only
\* in the FTS list, vecWeight*normVec when only in the vector list, and the
\* sum when in both; the top entry of both lists scores ftsWeight + vecWeight.
MergeScoring ==
    sOp = "merge" =>
        \A i \in 1..Len(sOut.res) :
            LET id == sOut.res[i].id
            IN /\ HasId(sFts, id) \/ HasId(sVec, id)
               /\ sOut.res[i].score = ExpectedScore(id)
               /\ (/\ HasId(sFts, id) /\ HasId(sVec, id)
                   /\ RLess(RZero, TopScore(sFts)) /\ RLess(RZero, TopScore(sVec))
                   /\ NormOf(sFts, id) = RInt(1) /\ NormOf(sVec, id) = RInt(1))
                  => sOut.res[i].score = RAdd(sWeights[1], sWeights[2])

\* the result holds an id that tops both lists and an id of the FTS list only
MergeScoringWitness ==
    /\ sOp = "merge"
    /\ Len(sOut.res) = 2
    /\ HasId(sFts, sOut.res[1].id) /\ HasId(sVec, sOut.res[1].id)
    /\ sOut.res[1].score = RAdd(sWeights[1], sWeights[2])
    /\ ~HasId(sVec, sOut.res[2].id)
    /\ RLess(RZero, sOut.res[2].score)

DistinctIds(list) ==
    \A i, j \in 1..Len(list) : list[i].id = list[j].id => i = j

\* C20: MergeResults and TieredSearch return at most limit results, no id
\* twice, in non-increasing score order (for TieredSearch's returns of the
\* lexical list: in the order FTSSearch ranked it), for every limit >= 0.
ResultsBounded ==
    (sOp \in {"merge", "tiered"} /\ ~sOut.err) =>
        /\ Len(sOut.res) <= sLimit
        /\ DistinctIds(sOut.res)
        /\ (sOp = "merge" \/ (sOut.vecCalled = 1 /\ ~sVecErr) \/ Descending(sFts))
              => Descending(sOut.res)

\* TieredSearch merged two lists that share an id and cut the result to a
\* positive limit
ResultsBoundedWitness ==
    /\ sOp = "tiered"
    /\ sOut.vecCalled = 1
    /\ ~sVecErr
    /\ sLimit > 0
    /\ Len(sOut.res) = sLimit
    /\ Len(sFts) = 2
    /\ \E i \in 1..Len(sFts) : HasId(sVec, sFts[i].id)
    /\ \E i \in 1..Len(sFts) : ~HasId(sVec, sFts[i].id)

(***************************************************************************)
(* SpecRedact: Redact applied once and twice to bounded inputs             *)
(***************************************************************************)
MaxChunks == 5

\* the pieces inputs are built from: whole tags, the two halves of an opening
\* tag, a secret character, a line break and a token prefix
RedactChunks == {OpenTag, CloseTag,
                 <<"<", "r", "e", "d", "a", "c">>, <<"t", "e", "d", ">">>,
                 <<"s">>, <<NL>>, <<"g", "h", "p", "_">>}

RECURSIVE ChunkSeqs(_)
ChunkSeqs(n) ==
    IF n = 0 THEN {<<>>}
    ELSE LET shorter == ChunkSeqs(n - 1)
         IN shorter \cup {Append(q, c) : q \in {x \in shorter : Len(x) = n - 1},
                                          c \in RedactChunks}

RedactInputs == {Concat(q) : q \in ChunkSeqs(MaxChunks)}

\* custom pattern lists: none, a literal, a literal that occurs in the marker,
\* and a pattern that does not compile
CustomPatternLists == {
    <<>>,
    <<[valid |-> TRUE, lit |-> <<"s", "s">>]>>,
    <<[valid |-> TRUE, lit |-> <<"E", "D">>]>>,
    <<[valid |-> FALSE, lit |-> <<"s">>]>> }

InitRedact ==
    /\ SearchIdle
    /\ ShelfIdle
    /\ StoreIdle
    /\ MoreIdle
    /\ rIn \in RedactInputs
    /\ rPats \in CustomPatternLists
    /\ rOut = <<>>
    /\ rOut2 = <<>>
    /\ rPc = "in"

RedactOnce ==
    /\ rPc = "in"
    /\ rOut' = Redact(rIn, rPats)
    /\ rPc' = "once"
    /\ UNCHANGED <<rIn, rPats, rOut2, searchVars, shelfVars, storeVars, moreVars>>

RedactTwice ==
    /\ rPc = "once"
    /\ rOut2' = Redact(rOut, rPats)
    /\ rPc' = "twice"
    /\ UNCHANGED <<rIn, rPats, rOut, searchVars, shelfVars, storeVars, moreVars>>

NextRedact == RedactOnce \/ RedactTwice

SpecRedact == InitRedact /\ [][NextRedact]_vars

\* TRUE iff the tags of s from position i on are balanced (every opening tag
\* has its matching closing tag) and every secret character "s" lies between
\* an opening tag and its matching closing tag
RECURSIVE SecretsEnclosed(_, _, _)
SecretsEnclosed(s, i, depth) ==
    IF i > Len(s) THEN depth = 0
    ELSE IF HasAt(s, OpenTag, i) THEN SecretsEnclosed(s, i + Len(OpenTag), depth + 1)
    ELSE IF HasAt(s, CloseTag, i) THEN
        depth > 0 /\ SecretsEnclosed(s, i + Len(CloseTag), depth - 1)
    ELSE (s[i] = "s" => depth > 0) /\ SecretsEnclosed(s, i + 1, depth)

\* C4: Redact is idempotent, Redact(Redact(x)) = Redact(x) for every text and
\* every list of custom patterns, and its output holds no <redacted> or
\* </redacted> tag that a second pass would still remove.
RedactIdempotent ==
    rPc = "twice" =>
        /\ rOut2 = rOut
        /\ ~Contains(rOut, OpenTag)
        /\ ~Contains(rOut, CloseTag)

\* C5: text lying between a <redacted> tag and its matching </redacted> tag,
\* at any nesting depth, with or without line breaks or text after an inner
\* closing tag, is absent from the output of Redact.
RedactedSpanAbsent ==
    (rPc # "in" /\ SecretsEnclosed(rIn, 1, 0)) => ~Contains(rOut, <<"s">>)

(***************************************************************************)
(* SpecShelf: WriteNoteItem called repeatedly on the notes file of one     *)
(* project and one day                                                     *)
(***************************************************************************)
MaxWrites == 3

P1 == <<"p">>

CategoryChoices == {NilPtr} \cup {Ptr(c) : c \in Elems(ValidCategories)}

\* raw inputs of the shelf specification: every category with a plain title or
\* a title that reads like a heading, with or without a details text that
\* holds a markdown heading line; and inputs that vary tags, source and why
ShelfTitles == {<<"t">>, <<"C", "o", "n", "t", "e", "x", "t">>}
ShelfDetails == {NilPtr, Ptr(<<"#", "#", " ", "L", "e", "a", "r", "n", "i", "n", "g", "s">>)}
ShelfTagLists == {<<>>, <<<<"B">>>>, <<<<"b">>, <<"a">>>>}
ShelfSources == {NilPtr, Ptr(<<"s">>), Ptr(<<"r">>)}

ShelfRaws ==
    {Raw(title, <<"w">>, NilPtr, NilPtr, <<>>, cat, details, NilPtr) :
        title \in ShelfTitles, cat \in CategoryChoices, details \in ShelfDetails}
    \cup
    {Raw(<<"t">>, <<"w">>, NilPtr, NilPtr, tags, Ptr("decision"), NilPtr, source) :
        tags \in ShelfTagLists, source \in ShelfSources}
    \cup
    {Raw(<<"t">>, <<"w">>, Ptr(<<"y">>), Ptr(<<"i">>), <<>>, NilPtr, Ptr(<<"d">>), NilPtr)}

InitShelf == ShelfIdle /\ SearchIdle /\ RedactIdle /\ StoreIdle /\ MoreIdle

\* one WriteNoteItem call for project P1; the log keeps what was rendered
CallWriteNoteItem ==
    /\ Len(shelfLog) < MaxWrites
    /\ \E raw \in ShelfRaws :
        LET k == Len(shelfLog) + 1
            item == FromRaw(raw, P1, NotesPath(P1), <<"u", k>>)
        IN /\ shelf' = [shelf EXCEPT ![P1] = WriteNoteItem(@, item, Today, raw.details, Now, k)]
           /\ shelfLog' = Append(shelfLog, [project |-> P1, item |-> item,
                                             details |-> raw.details,
                                             section |-> renderSection(item, raw.details)])
    /\ UNCHANGED <<redactVars, searchVars, storeVars, moreVars>>

NextShelf == CallWriteNoteItem

SpecShelf == InitShelf /\ [][NextShelf]_vars

(***************************************************************************)
(* Properties of the Shelf Writer                                          *)
(***************************************************************************)
\* the body of a notes file: what follows the header
BodyOf(file) == IF file = <<>> THEN <<>> ELSE splitFrontmatter(file)[2]

\* the categories of the headings the writer emitted, in file order
EmittedHeadings(file) ==
    LET hs == SelectSeq(BodyOf(file), LAMBDA l : l.o = -1)
    IN [i \in 1..Len(hs) |->
          CHOOSE c \in Elems(ValidCategories) : hs[i].t = H2 \o CategoryHeadings[c]]

\* C9: after any sequence of WriteNoteItem calls on one file, the category
\* headings of the body appear in the order Decisions, Patterns, Bugs Fixed,
\* Context, Learnings, each at most once.
HeadingsInOrder ==
    LET hs == EmittedHeadings(shelf[P1])
    IN \A i \in 1..(Len(hs) - 1) : CategoryIndex(hs[i]) < CategoryIndex(hs[i + 1])

\* where the lines marked k stand in a file
LinesOf(file, k) == {i \in 1..Len(file) : file[i].o = k}

\* the section rendered for the k-th write stands in the file once, unbroken
\* and unchanged
SectionIntact(file, k) ==
    LET sec == Split(shelfLog[k].section, <<NL>>)
        at == LinesOf(file, k)
    IN /\ Cardinality(at) = Len(sec)
       /\ \E start \in 1..Len(file) :
             /\ at = start..(start + Len(sec) - 1)
             /\ \A i \in 1..Len(sec) : file[start + i - 1].t = sec[i]

\* C10: after any sequence of WriteNoteItem calls on one file, the rendered
\* section of every item written so far appears in the file exactly once,
\* contiguous and unchanged.
SectionsIntact ==
    \A k \in 1..Len(shelfLog) : SectionIntact(shelf[shelfLog[k].project], k)

(***************************************************************************)
(* Spec: Service.Store called repeatedly on one Service instance           *)
(***************************************************************************)
MaxStores == 3

P2 == <<"q">>

\* the calls of the specification: a title and a what, the same title with a
\* what that repeats and extends it, an item of another project, the title in
\* another case with a why, a tag, a category and details, and an input with
\* secrets in every text field
StoreCalls == {
    [project |-> P1, raw |-> Raw(<<"A">>, <<"x">>, NilPtr, NilPtr, <<>>, NilPtr, NilPtr, NilPtr)],
    [project |-> P1, raw |-> Raw(<<"A">>, <<"x", " ", "y", " ", "y">>, NilPtr, NilPtr, <<>>, NilPtr, NilPtr, NilPtr)],
    [project |-> P2, raw |-> Raw(<<"A">>, <<"y">>, NilPtr, NilPtr, <<>>, NilPtr, NilPtr, NilPtr)],
    [project |-> P1, raw |-> Raw(<<" ", "a">>, <<"x">>, Ptr(<<"z">>), NilPtr, <<<<"t">>>>, Ptr("bug"), Ptr(<<"d">>), NilPtr)],
    [project |-> P1, raw |-> Raw(<<"g", "h", "p", "_", "a">>, <<"g", "h", "p", "_", "x">>, Ptr(<<"g", "h", "p", "_", "y">>), NilPtr, <<<<"g", "h", "p", "_", "t">>>>, NilPtr, Ptr(<<"g", "h", "p", "_", "d">>), Ptr(<<"g", "h", "p", "_", "s">>))] }

Init == StoreIdle /\ ShelfIdle /\ SearchIdle /\ RedactIdle /\ MoreIdle

\* what a call of Store was given and what it returned, with the database
\* before and after it
LogEntry(call, action, id, filePath, after) ==
    [raw |-> call.raw, project |-> call.project, action |-> action, id |-> id,
     filePath |-> filePath, before |-> svcDb, after |-> after]

\* Store on the update path
CallStoreUpdate ==
    /\ Len(storeLog) < MaxStores
    /\ \E call \in StoreCalls :
        LET raw == RedactRaw(call.raw)
        IN \E target \in DedupDecisions(svcDb, raw, call.project) :
            /\ target # NilPtr
            /\ svcDb' = StoreUpdate(svcDb, raw, target[1])
            /\ storeLog' = Append(storeLog,
                                  LogEntry(call, "updated", target[1].id, target[1].filePath,
                                           StoreUpdate(svcDb, raw, target[1])))
    /\ UNCHANGED <<svcProvider, idCount, shelfVars, redactVars, searchVars, moreVars>>

\* Store on the create path: the shelf section, the item row, and, when the
\* provider is there and Embed succeeds, the vector
CallStoreCreate ==
    /\ Len(storeLog) < MaxStores
    /\ \E call \in StoreCalls :
        LET raw == RedactRaw(call.raw)
            item == FromRaw(raw, call.project, NotesPath(call.project), NewId(idCount))
            k == Len(shelfLog) + 1
            inserted == InsertItem(svcDb, item, raw.details)
            stored == StoreVector(inserted, RowidOf(inserted, item.id), Embed(EmbedText(item)))
        IN /\ NilPtr \in DedupDecisions(svcDb, raw, call.project)
           /\ shelf' = [shelf EXCEPT ![call.project] =
                            WriteNoteItem(@, item, Today, raw.details, Now, k)]
           /\ shelfLog' = Append(shelfLog, [project |-> call.project, item |-> item,
                                             details |-> raw.details,
                                             section |-> renderSection(item, raw.details)])
           /\ idCount' = idCount + 1
           /\ \E provider \in (IF svcProvider = "unset" THEN {"ok", "err"} ELSE {svcProvider}),
                 embedOk \in BOOLEAN :
                 /\ provider = "err" => embedOk
                 /\ svcProvider' = provider
                 /\ svcDb' = IF provider = "ok" /\ embedOk THEN stored ELSE inserted
                 /\ storeLog' = Append(storeLog,
                                       LogEntry(call, "created", item.id, item.filePath,
                                                IF provider = "ok" /\ embedOk
                                                THEN stored ELSE inserted))
    /\ UNCHANGED <<redactVars, searchVars, moreVars>>

Next == CallStoreUpdate \/ CallStoreCreate

Spec == Init /\ [][Next]_vars

(***************************************************************************)
(* Properties of Service.Store                                             *)
(***************************************************************************)
\* calls i and i + 1 are for the same project and title, and every term of
\* the first what is a term of the second
Repeats(i) ==
    /\ i + 1 <= Len(storeLog)
    /\ storeLog[i + 1].project = storeLog[i].project
    /\ storeLog[i + 1].raw.title = storeLog[i].raw.title
    /\ Elems(splitQuery(storeLog[i].raw.what)) \subseteq Elems(splitQuery(storeLog[i + 1].raw.what))

\* the project holds no item with that title, titles compared as Store
\* compares them
NoItemTitled(d, project, title) ==
    \A r \in DOMAIN d.items :
        ~(d.items[r].project = project /\ titleMatch(d.items[r].title, title))

\* no item stored before call i is matched by the dedup probe of call i + 1
ProbeUnmatched(i) ==
    FtsMatches(storeLog[i].before,
               QueryPhrases(DedupQuery(RedactRaw(storeLog[i + 1].raw))), NilPtr, NilPtr) = {}

CreatedThenUpdated(i) ==
    /\ storeLog[i].action = "created"
    /\ storeLog[i + 1].action = "updated"
    /\ storeLog[i + 1].id = storeLog[i].id

OneItemMore(i) ==
    CountItems(storeLog[i + 1].after, Ptr(storeLog[i].project))
        = CountItems(storeLog[i].before, Ptr(storeLog[i].project)) + 1

LowerSet(tags) == {ToLower(t) : t \in Elems(tags)}

\* C2 as stated: after Store returns id i with either action, GetItem(i) has
\* the input title, the redacted input what and the input tag set.
StoreRoundTrip ==
    \A i \in 1..Len(storeLog) :
        LET got == GetItem(storeLog[i].after, storeLog[i].id)
        IN /\ got[1]
           /\ got[2].title = storeLog[i].raw.title
           /\ got[2].what = RedactCompiled(storeLog[i].raw.what, compiledIgnore)
           /\ Elems(got[2].tags) = Elems(storeLog[i].raw.tags)

\* C2, by action: GetItem(i) has the redacted input what; after "created" it
\* has the input title and the input tag set; after "updated" it keeps the
\* title stored before, which equals the input title up to case and
\* surrounding white space, keeps the tags stored before, and its tag set is,
\* compared in lower case, the set of the stored and the input tags.
StoreRoundTripByAction ==
    \A i \in 1..Len(storeLog) :
        LET got == GetItem(storeLog[i].after, storeLog[i].id)
            prev == GetItem(storeLog[i].before, storeLog[i].id)
        IN /\ got[1]
           /\ got[2].what = RedactCompiled(storeLog[i].raw.what, compiledIgnore)
           /\ storeLog[i].action = "created"
                => /\ ~prev[1]
                   /\ got[2].title = storeLog[i].raw.title
                   /\ Elems(got[2].tags) = Elems(storeLog[i].raw.tags)
           /\ storeLog[i].action = "updated"
                => /\ prev[1]
                   /\ got[2].title = prev[2].title
                   /\ EqualFold(TrimSpace(got[2].title), TrimSpace(storeLog[i].raw.title))
                   /\ Elems(prev[2].tags) \subseteq Elems(got[2].tags)
                   /\ LowerSet(got[2].tags)
                        = LowerSet(prev[2].tags) \cup LowerSet(storeLog[i].raw.tags)

StoreRoundTripByActionWitness ==
    /\ \E i \in 1..Len(storeLog) :
          /\ storeLog[i].action = "created"
          /\ storeLog[i].raw.tags # <<>>
    /\ \E i \in 1..Len(storeLog) :
          LET got == GetItem(storeLog[i].after, storeLog[i].id)
              prev == GetItem(storeLog[i].before, storeLog[i].id)
          IN /\ storeLog[i].action = "updated"
             /\ got[2].title # storeLog[i].raw.title
             /\ got[2].tags # prev[2].tags
             /\ got[2].what # prev[2].what

Redacted(text) == RedactCompiled(text, compiledIgnore) = text

RedactedPtr(p) == p = NilPtr \/ Redacted(p[1])

RowRedacted(row) ==
    /\ Redacted(row.title)
    /\ Redacted(row.what)
    /\ RedactedPtr(row.why)
    /\ RedactedPtr(row.impact)
    /\ \A t \in Elems(jsonUnmarshal(row.tags)) : Redacted(t)
    /\ RedactedPtr(row.source)

\* the index document a row would have with every text field redacted
RedactedDoc(row) ==
    FtsDoc([row EXCEPT !.title = RedactCompiled(@, compiledIgnore),
                       !.what = RedactCompiled(@, compiledIgnore),
                       !.why = RedactPtr(@),
                       !.impact = RedactPtr(@),
                       !.tags = IF jsonUnmarshal(@) = <<>> THEN @
                                ELSE jsonMarshal(Ptr([i \in 1..Len(jsonUnmarshal(@)) |->
                                        RedactCompiled(jsonUnmarshal(@)[i], compiledIgnore)])),
                       !.source = RedactPtr(@)])

\* C3: in every state reached by Store, the item rows, the index documents,
\* the detail bodies and the lines of the shelf files hold only text that
\* redaction leaves unchanged, title, tags and source included.
StoredTextRedacted ==
    /\ \A r \in DOMAIN svcDb.items : RowRedacted(svcDb.items[r])
    /\ \A r \in DOMAIN svcDb.fts : svcDb.fts[r] = RedactedDoc(svcDb.items[r])
    /\ \A id \in DOMAIN svcDb.details : Redacted(svcDb.details[id])
    /\ \A p \in Projects : \A i \in 1..Len(shelf[p]) : Redacted(shelf[p][i].t)

(***************************************************************************)
(* SpecOnce: concurrent callers of GetEmbeddingProvider and                *)
(* VectorsAvailable.  Each method is once.Do(f) followed by a read of the  *)
(* cached field; Do loads the done flag and, when it is 0, takes the       *)
(* mutex, checks the flag again, runs f, stores 1 and releases the mutex.  *)
(***************************************************************************)
\* a variant of OnceMustRun: f runs whatever the flag says
OnceMustRunUnchecked(done) == TRUE

\* doSlow: f runs when the flag is still 0 under the mutex
OnceMustRun(done) == done = 0

\* what f can put in the cached field: the provider or the error of
\* embeddings.NewProvider, the answer of HasVecTable
OnceValues(k) == IF k = "emb" THEN {"ok", "err"} ELSE {"true", "false"}

OnceRest == <<redactVars, searchVars, shelfVars, storeVars, opVars>>

InitOnce == SearchIdle /\ RedactIdle /\ ShelfIdle /\ StoreIdle /\ MoreIdle

\* a caller enters GetEmbeddingProvider or VectorsAvailable
OnceCall ==
    \E t \in Callers, k \in {"emb", "vec"} :
        /\ oPc[t] = "idle"
        /\ oKind' = [oKind EXCEPT ![t] = k]
        /\ oPc' = [oPc EXCEPT ![t] = "load"]
        /\ UNCHANGED <<oOnce, oRet, oRaced, OnceRest>>

\* Do: o.done.Load()
OnceLoad ==
    \E t \in Callers :
        /\ oPc[t] = "load"
        /\ oPc' = [oPc EXCEPT ![t] = IF oOnce[oKind[t]].done = 0 THEN "lock" ELSE "read"]
        /\ UNCHANGED <<oKind, oOnce, oRet, oRaced, OnceRest>>

\* doSlow: o.m.Lock()
OnceLock ==
    \E t \in Callers :
        /\ oPc[t] = "lock"
        /\ oOnce[oKind[t]].lock = 0
        /\ oOnce' = [oOnce EXCEPT ![oKind[t]].lock = t]
        /\ oPc' = [oPc EXCEPT ![t] = "check"]
        /\ UNCHANGED <<oKind, oRet, oRaced, OnceRest>>

\* doSlow: the second look at the flag
OnceCheck ==
    \E t \in Callers :
        /\ oPc[t] = "check"
        /\ oPc' = [oPc EXCEPT ![t] = IF OnceMustRun(oOnce[oKind[t]].done)
                                     THEN "run" ELSE "unlock"]
        /\ UNCHANGED <<oKind, oOnce, oRet, oRaced, OnceRest>>

\* f starts: the factory or the probe is called and the write of the cached
\* field begins
OnceRun ==
    \E t \in Callers :
        /\ oPc[t] = "run"
        /\ oOnce' = [oOnce EXCEPT ![oKind[t]].calls = @ + 1, ![oKind[t]].writing = TRUE]
        /\ oRaced' = (oRaced \/ oOnce[oKind[t]].writing)
        /\ oPc' = [oPc EXCEPT ![t] = "write"]
        /\ UNCHANGED <<oKind, oRet, OnceRest>>

\* f ends: the cached field holds what the factory or the probe returned
OnceWrite ==
    \E t \in Callers :
        /\ oPc[t] = "write"
        /\ \E v \in OnceValues(oKind[t]) :
              oOnce' = [oOnce EXCEPT ![oKind[t]].value = v, ![oKind[t]].writing = FALSE]
        /\ oPc' = [oPc EXCEPT ![t] = "store"]
        /\ UNCHANGED <<oKind, oRet, oRaced, OnceRest>>

\* doSlow: the deferred o.done.Store(1)
OnceStore ==
    \E t \in Callers :
        /\ oPc[t] = "store"
        /\ oOnce' = [oOnce EXCEPT ![oKind[t]].done = 1]
        /\ oPc' = [oPc EXCEPT ![t] = "unlock"]
        /\ UNCHANGED <<oKind, oRet, oRaced, OnceRest>>

\* doSlow: the deferred o.m.Unlock()
OnceUnlock ==
    \E t \in Callers :
        /\ oPc[t] = "unlock"
        /\ oOnce' = [oOnce EXCEPT ![oKind[t]].lock = 0]
        /\ oPc' = [oPc EXCEPT ![t] = "read"]
        /\ UNCHANGED <<oKind, oRet, oRaced, OnceRest>>

\* the return statement reads the cached field
OnceRead ==
    \E t \in Callers :
        /\ oPc[t] = "read"
        /\ oRet' = [oRet EXCEPT ![t] = oOnce[oKind[t]].value]
        /\ oRaced' = (oRaced \/ oOnce[oKind[t]].writing)
        /\ oPc' = [oPc EXCEPT ![t] = "done"]
        /\ UNCHANGED <<oKind, oOnce, OnceRest>>

NextOnce ==
    \/ OnceCall
    \/ OnceLoad
    \/ OnceLock
    \/ OnceCheck
    \/ OnceRun
    \/ OnceWrite
    \/ OnceStore
    \/ OnceUnlock
    \/ OnceRead

SpecOnce == InitOnce /\ [][NextOnce]_vars

\* C18: for every interleaving of concurrent GetEmbeddingProvider and
\* VectorsAvailable calls, the provider factory and the HasVecTable probe run
\* at most once each, no cached field is read or written while it is being
\* written, and all callers of a method get the same value, the one written.
OnceCached ==
    /\ \A k \in {"emb", "vec"} : oOnce[k].calls <= 1
    /\ ~oRaced
    /\ \A t \in Callers :
          oPc[t] = "done" => /\ oRet[t] \in OnceValues(oKind[t])
                             /\ oRet[t] = oOnce[oKind[t]].value
    /\ \A t, u \in Callers :
          (oPc[t] = "done" /\ oPc[u] = "done" /\ oKind[t] = oKind[u]) => oRet[t] = oRet[u]

\* every caller has returned, two of them from the same method, and both
\* methods were called
OnceCachedWitness ==
    /\ \A t \in Callers : oPc[t] = "done"
    /\ \E t, u \in Callers : t # u /\ oKind[t] = oKind[u]
    /\ oOnce["emb"].calls = 1
    /\ oOnce["vec"].calls = 1

(***************************************************************************)
(* SpecService: one pantry home over several processes: Store, Remove,     *)
(* Reindex and EnsureVecTable on the Service of the running process, and   *)
(* the process started again, perhaps with another embedding model.        *)
(***************************************************************************)
MaxSvcOps == 3

\* the vector lengths of the models that can be configured
Dims == {2, 3}

\* provider.Embed of the configured model
EmbedDim(text, dim) == [i \in 1..dim |-> text]

\* the operation just called: its arguments, what it returned, and the
\* database and the shelf it found
Op(name, args, res) ==
    [name |-> name, args |-> args, res |-> res, before |-> svcDb, shelfBefore |-> shelf]

\* what Store returns, with the step that failed and what became of the
\* vector
StoreResult(err, action, id, fault, vector) ==
    [err |-> err, action |-> action, id |-> id, fault |-> fault, vector |-> vector]

\* storeCmd, lines 27-35: the command line refuses an empty title or what
CliRejects(call) ==
    call.entry = "cli" /\ (call.raw.title = <<>> \/ call.raw.what = <<>>)

\* the embedding step of the create path, lines 222-232: the step that
\* failed ("provider", "embed", "ensure", "insert"), "none" when InsertVector
\* found no table, or "stored"
VectorStep(db, rowid, provider, embedOk, dim) ==
    CASE provider = "err" -> "provider"
      [] ~embedOk -> "embed"
      [] EnsureVecTable(db, dim).err -> "ensure"
      [] ~HasVecTable(EnsureVecTable(db, dim).db) -> "none"
      [] rowid \in DOMAIN db.vec -> "insert"
      [] OTHER -> "stored"

\* Store, from the entry point on.  calls are the requests that can arrive
\* and faults the writes that can fail: "shelf" is WriteNoteItem, "item" and
\* "detail" the statements of InsertItem, "update" the one of UpdateItem.
ServiceStore(calls, faults) ==
    /\ svcSteps < MaxSvcOps
    /\ svcSteps' = svcSteps + 1
    /\ \E call \in calls :
        IF CliRejects(call)
        THEN /\ svcOp' = Op("store", call, StoreResult(TRUE, "rejected", <<>>, "none", "none"))
             /\ UNCHANGED <<svcDb, svcProvider, idCount, shelfVars>>
        ELSE LET raw == RedactRaw(call.raw)
             IN \E target \in DedupDecisions(svcDb, raw, call.project), fault \in faults :
                 IF target # NilPtr
                 THEN LET top == target[1]
                          mergedTags == mergeTags(top.tags, raw.tags)
                          detailsAppend ==
                              IF raw.details # NilPtr
                              THEN <<"-", "-", "-", " ", "u", "p", "d", "a", "t", "e", "d", " ">> \o Today \o <<" ", "-", "-", "-">> \o <<NL>> \o raw.details[1]
                              ELSE <<>>
                          upd == UpdateItemSteps(svcDb, top.id, Ptr(raw.what), raw.why,
                                                 raw.impact, Ptr(mergedTags),
                                                 Ptr(detailsAppend),
                                                 IF fault = "update" THEN "update" ELSE "none")
                      IN /\ fault \in {"none", "update"}
                         /\ svcDb' = upd.db
                         /\ svcOp' = Op("store", call,
                                        IF upd.err
                                        THEN StoreResult(TRUE, "failed", <<>>, fault, "none")
                                        ELSE StoreResult(FALSE, "updated", top.id, fault, "none"))
                         /\ UNCHANGED <<svcProvider, idCount, shelfVars>>
                 ELSE LET item == FromRaw(raw, call.project, NotesPath(call.project),
                                          NewId(idCount))
                          k == Len(shelfLog) + 1
                          ins == InsertItemSteps(svcDb, item, raw.details, fault)
                          rowid == RowidOf(ins.db, item.id)
                      IN /\ fault # "update"
                         /\ fault = "detail" => raw.details # NilPtr
                         /\ idCount' = idCount + 1
                         /\ IF fault = "shelf"
                            THEN /\ svcOp' = Op("store", call,
                                                StoreResult(TRUE, "failed", item.id, fault, "none"))
                                 /\ UNCHANGED <<svcDb, svcProvider, shelfVars>>
                            ELSE /\ shelf' = [shelf EXCEPT ![call.project] =
                                                 WriteNoteItem(@, item, Today, raw.details, Now, k)]
                                 /\ shelfLog' = Append(shelfLog,
                                                   [project |-> call.project, item |-> item,
                                                    details |-> raw.details,
                                                    section |-> renderSection(item, raw.details)])
                                 /\ IF ins.err
                                    THEN /\ svcDb' = ins.db
                                         /\ svcOp' = Op("store", call,
                                                StoreResult(TRUE, "failed", item.id, fault, "none"))
                                         /\ UNCHANGED svcProvider
                                    ELSE \E provider \in (IF svcProvider = "unset"
                                                          THEN {"ok", "err"} ELSE {svcProvider}),
                                            embedOk \in BOOLEAN :
                                            /\ provider = "err" => embedOk
                                            /\ svcProvider' = provider
                                            /\ svcDb' = IF provider = "ok" /\ embedOk
                                                        THEN StoreVector(ins.db, rowid,
                                                                 EmbedDim(EmbedText(item), svcDim))
                                                        ELSE ins.db
                                            /\ svcOp' = Op("store", call,
                                                   StoreResult(FALSE, "created", item.id, fault,
                                                       VectorStep(ins.db, rowid, provider,
                                                                  embedOk, svcDim)))
    /\ UNCHANGED <<storeLog, svcDim, redactVars, searchVars, onceVars>>

\* the identifiers handed out so far
KnownIds == {NewId(n) : n \in 0..(idCount - 1)}

\* Service.Remove, lines 307-309
ServiceRemove(faults) ==
    /\ svcSteps < MaxSvcOps
    /\ svcSteps' = svcSteps + 1
    /\ \E itemID \in KnownIds, fault \in faults :
        LET res == DeleteItem(svcDb, itemID, fault)
        IN /\ svcDb' = res.db
           /\ svcOp' = Op("remove", itemID,
                          [deleted |-> res.deleted, err |-> res.err, fault |-> fault])
    /\ UNCHANGED <<svcProvider, idCount, storeLog, svcDim, shelfVars, redactVars,
                   searchVars, onceVars>>

\* the loop of Reindex over the listed rows: Embed, and InsertVector unless
\* Embed failed
RECURSIVE ReindexLoop(_, _, _, _)
ReindexLoop(db, rows, failing, dim) ==
    IF rows = <<>> THEN db
    ELSE LET r == Head(rows)
             next == IF r \in failing THEN db
                     ELSE InsertVector(db, r, EmbedDim(EmbedText(ToItem(db.items[r])), dim))
         IN ReindexLoop(next, Tail(rows), failing, dim)

\* Reindex after the provider and the probe succeeded, lines 326-365
Reindex(db, dim, failing) ==
    LET dropped == DropVecTable(db)
        recorded == SetEmbeddingDim(dropped, dim)
        ensured == EnsureVecTable(recorded, dim)
    IN IF ensured.err THEN [err |-> TRUE, db |-> recorded]
       ELSE [err |-> FALSE,
             db |-> ReindexLoop(ensured.db, ListAllForReindex(ensured.db), failing, dim)]

\* Service.Reindex: the provider, the probe, then the rebuild; the Embed
\* call of at most one item fails
ServiceReindex ==
    /\ svcSteps < MaxSvcOps
    /\ svcSteps' = svcSteps + 1
    /\ \E provider \in (IF svcProvider = "unset" THEN {"ok", "err"} ELSE {svcProvider}),
          probeOk \in BOOLEAN,
          failing \in {{}} \cup {{r} : r \in DOMAIN svcDb.items} :
        LET res == Reindex(svcDb, svcDim, failing)
        IN /\ svcProvider' = provider
           /\ IF provider = "err" \/ ~probeOk
              THEN /\ failing = {}
                   /\ provider = "err" => probeOk
                   /\ svcDb' = svcDb
                   /\ svcOp' = Op("reindex", <<>>,
                                  [err |-> TRUE, dim |-> 0, failing |-> {}])
              ELSE /\ svcDb' = res.db
                   /\ svcOp' = Op("reindex", <<>>,
                                  [err |-> res.err, dim |-> svcDim, failing |-> failing])
    /\ UNCHANGED <<idCount, storeLog, svcDim, shelfVars, redactVars, searchVars, onceVars>>

\* DB.EnsureVecTable called with a dimension
CallEnsureVecTable ==
    /\ svcSteps < MaxSvcOps
    /\ svcSteps' = svcSteps + 1
    /\ \E dim \in Dims :
        LET res == EnsureVecTable(svcDb, dim)
        IN /\ svcDb' = res.db
           /\ svcOp' = Op("ensure", dim, [err |-> res.err])
    /\ UNCHANGED <<svcProvider, idCount, storeLog, svcDim, shelfVars, redactVars,
                   searchVars, onceVars>>

\* the process ends and another starts on the same pantry home: NewService
\* opens the database (migrate) with nothing cached, and the configured
\* model may be another
Restart ==
    /\ svcSteps < MaxSvcOps
    /\ svcSteps' = svcSteps + 1
    /\ \E dim \in Dims :
        /\ svcDim' = dim
        /\ svcDb' = migrate(svcDb)
        /\ svcProvider' = "unset"
        /\ svcOp' = Op("restart", dim, [err |-> FALSE])
    /\ UNCHANGED <<idCount, storeLog, shelfVars, redactVars, searchVars, onceVars>>

\* the requests of SpecService: a note from the command line, a note with
\* another title, the same what and details from the MCP handler, a request
\* with an empty title and an empty what from the MCP handler, and one with
\* an empty title from the command line
SvcCalls == {
    [entry |-> "cli", project |-> P1, raw |-> Raw(<<"A">>, <<"x">>, NilPtr, NilPtr, <<>>, NilPtr, NilPtr, NilPtr)],
    [entry |-> "mcp", project |-> P1, raw |-> Raw(<<"B">>, <<"x">>, NilPtr, NilPtr, <<>>, NilPtr, Ptr(<<"d">>), NilPtr)],
    [entry |-> "mcp", project |-> P1, raw |-> Raw(<<>>, <<>>, NilPtr, NilPtr, <<>>, NilPtr, NilPtr, NilPtr)],
    [entry |-> "cli", project |-> P1, raw |-> Raw(<<>>, <<"x">>, NilPtr, NilPtr, <<>>, NilPtr, NilPtr, NilPtr)] }

InitService ==
    /\ StoreIdle /\ ShelfIdle /\ SearchIdle /\ RedactIdle /\ OnceIdle
    /\ svcOp = NoOp
    /\ svcDim = 2
    /\ svcSteps = 0

\* the writes of Store that fail in SpecService
SvcFaults == {"none", "shelf", "item", "detail"}

SvcStore == ServiceStore(SvcCalls, SvcFaults)

SvcRemove == ServiceRemove({"none"})

NextService == SvcStore \/ SvcRemove \/ ServiceReindex \/ CallEnsureVecTable \/ Restart

SpecService == InitService /\ [][NextService]_vars

(***************************************************************************)
(* Properties of the Service over its lifetime                             *)
(***************************************************************************)
\* C13: when Reindex returns without error, in whatever state it started,
\* the vector table exists, the recorded dimension is the length of the
\* provider's vectors, and the table holds exactly one vector of that length
\* for every item whose Embed call succeeded (the items whose call failed
\* are skipped)
ReindexRebuilds ==
    (svcOp.name = "reindex" /\ ~svcOp.res.err) =>
        /\ HasVecTable(svcDb)
        /\ svcDb.dim = Ptr(svcOp.res.dim)
        /\ DOMAIN svcDb.vec = DOMAIN svcDb.items \ svcOp.res.failing
        /\ \A r \in DOMAIN svcDb.vec : Len(svcDb.vec[r]) = svcOp.res.dim

\* C17: a store request with an empty title or an empty what is rejected
\* before anything is written, at every entry point: the call returns an
\* error and the database (item rows, detail rows, vectors) and the shelf
\* are as before (here for the calls in which no write failed)
StoreValidates ==
    (/\ svcOp.name = "store"
     /\ svcOp.args.raw.title = <<>> \/ svcOp.args.raw.what = <<>>
     /\ svcOp.res.fault = "none") =>
        /\ svcOp.res.err
        /\ svcOp.res.action = "rejected"
        /\ svcDb = svcOp.before
        /\ shelf = svcOp.shelfBefore

\* C15: a Store call that fails on the create path leaves nothing behind:
\* when the shelf write failed the database is as before, and when
\* InsertItem failed the shelf is as before
StoreFailureClean ==
    (svcOp.name = "store" /\ svcOp.res.action = "failed") =>
        /\ svcOp.res.fault = "shelf" => svcDb = svcOp.before
        /\ svcOp.res.fault \in {"item", "detail"} => shelf = svcOp.shelfBefore

\* the section written for an item stands in the shelf file of its project
HasSection(id) ==
    \E k \in 1..Len(shelfLog) :
        /\ shelfLog[k].item.id = id
        /\ SectionIntact(shelf[shelfLog[k].project], k)

\* every way FTSSearch can answer a query for the project name lists the item
FoundByFTS(db, id, project) ==
    LET found == FTSSearch(db, project, 10, NilPtr, NilPtr)
    IN /\ ~found.err
       /\ \A l \in found.lists : \E i \in 1..Len(l) : l[i].id = id

\* a vector stands in the vector table under the rowid of the item
HasVector(db, id) == HasVecTable(db) /\ RowidOf(db, id) \in DOMAIN db.vec

\* C14: when, on the create path of Store, the provider, Embed,
\* EnsureVecTable or InsertVector fails, Store still returns "created"
\* without error, GetItem returns the item, FTSSearch finds it, its section
\* is in the shelf file, and no vector is stored for it
VectorFailureSwallowed ==
    (/\ svcOp.name = "store"
     /\ svcOp.res.vector \in {"provider", "embed", "ensure", "insert"}) =>
        /\ ~svcOp.res.err
        /\ svcOp.res.action = "created"
        /\ GetItem(svcDb, svcOp.res.id)[1]
        /\ FoundByFTS(svcDb, svcOp.res.id, svcOp.args.project)
        /\ HasSection(svcOp.res.id)
        /\ ~HasVector(svcDb, svcOp.res.id)

DedupCalls == {
    [entry |-> "mcp", project |-> P1, raw |-> Raw(<<"A">>, <<"x">>, NilPtr, NilPtr, <<>>, NilPtr, NilPtr, NilPtr)],
    [entry |-> "mcp", project |-> P2, raw |-> Raw(<<"A">>, <<"y">>, NilPtr, NilPtr, <<>>, NilPtr, NilPtr, NilPtr)],
    [entry |-> "mcp", project |-> P1, raw |-> Raw(<<"a", " ">>, <<"x", " ", "y", " ", "y">>, NilPtr, NilPtr, <<>>, NilPtr, NilPtr, NilPtr)],
    [entry |-> "mcp", project |-> P1, raw |-> Raw(<<"B">>, <<"x">>, NilPtr, NilPtr, <<>>, NilPtr, NilPtr, NilPtr)],
    [entry |-> "mcp", project |-> P1, raw |-> Raw(<<>>, <<>>, NilPtr, NilPtr, <<>>, NilPtr, NilPtr, NilPtr)] }

DedupStore == ServiceStore(DedupCalls, {"none"})

NextDedup == DedupStore

SpecDedup == InitService /\ [][NextDedup]_vars

\* the probes of the last Store call, run on the database it found: the
\* search within the project and the search across projects
ProbeQuery == svcOp.args.raw.title \o <<" ">> \o RedactRaw(svcOp.args.raw).what

ProjectProbe == FTSSearch(svcOp.before, ProbeQuery, 5, Ptr(svcOp.args.project), NilPtr)

BroadProbe == FTSSearch(svcOp.before, ProbeQuery, 5, NilPtr, NilPtr)

\* the candidate is at least 0.7 of the best score across projects and has
\* the title of the request, spaces around it and case left aside
Duplicates(top, best) ==
    /\ ~BroadProbe.err /\ best # <<>>
    /\ ScorePositive(best[1].score)
    /\ ScaledGeq(10, top.score, 7, best[1].score)
    /\ ToLower(TrimSpace(svcOp.args.raw.title)) = ToLower(TrimSpace(top.title))

\* C19: Store updates if and only if the probe within the project returns a
\* candidate, the score of the first candidate is at least 0.7 of the first
\* score of the probe across projects, and the titles are equal, spaces
\* around them and case left aside; in every other case (a failed probe, no
\* candidate, another title, a lower score) it creates an item.  The item
\* updated is the first candidate, an item of the project of the request.
UpdateIffDuplicate ==
    svcOp.name = "store" =>
        /\ svcOp.res.action \in {"updated", "created"}
        /\ svcOp.res.action = "updated" =>
              /\ ~ProjectProbe.err
              /\ \E l \in ProjectProbe.lists \ {<<>>}, b \in BroadProbe.lists :
                    /\ Duplicates(l[1], b)
                    /\ svcOp.res.id = l[1].id
                    /\ l[1].project = svcOp.args.project
              /\ HasItem(svcOp.before, svcOp.res.id)
              /\ CountItems(svcDb, NilPtr) = CountItems(svcOp.before, NilPtr)
        /\ svcOp.res.action = "created" =>
              /\ \/ ProjectProbe.err
                 \/ <<>> \in ProjectProbe.lists
                 \/ \E l \in ProjectProbe.lists, b \in BroadProbe.lists : ~Duplicates(l[1], b)
              /\ ~HasItem(svcOp.before, svcOp.res.id)
              /\ CountItems(svcDb, NilPtr) = CountItems(svcOp.before, NilPtr) + 1

\* Store created an item although the first candidate of the project has
\* the title of the request: its score is below 0.7 of the best
UpdateIffDuplicateWitness ==
    /\ svcOp.name = "store"
    /\ svcOp.res.action = "created"
    /\ ~ProjectProbe.err
    /\ \E l \in ProjectProbe.lists \ {<<>>}, b \in BroadProbe.lists :
          /\ b # <<>>
          /\ ToLower(TrimSpace(svcOp.args.raw.title)) = ToLower(TrimSpace(l[1].title))
          /\ ~ScaledGeq(10, l[1].score, 7, b[1].score)

(***************************************************************************)
(* SpecDb: the write operations of the Relational Store called one after   *)
(* another, each statement of each of them succeeding or failing.          *)
(***************************************************************************)
MaxDbOps == 4

\* the operation just called, and the ids for which DeleteItem has returned
\* deleted = true so far
DbOp(name, args, res, gone) ==
    [name |-> name, args |-> args, res |-> res, before |-> svcDb, gone |-> gone]

InitDb ==
    /\ StoreIdle /\ ShelfIdle /\ SearchIdle /\ RedactIdle /\ OnceIdle
    /\ svcOp = [name |-> "none", gone |-> {}]
    /\ svcDim = 2
    /\ svcSteps = 0

\* the detail bodies InsertItem is given
DbDetails == {NilPtr, Ptr(<<"d">>)}

\* InsertItem of a new item, with or without details
CallInsertItem ==
    /\ svcSteps < MaxDbOps
    /\ svcSteps' = svcSteps + 1
    /\ \E details \in DbDetails, fault \in {"none", "item", "rowid", "detail"} :
        LET item == FromRaw(Raw(<<"A">>, <<"x">>, NilPtr, NilPtr, <<>>, NilPtr, details, NilPtr),
                            P1, NotesPath(P1), NewId(idCount))
            res == InsertItemSteps(svcDb, item, details, fault)
        IN /\ fault = "detail" => details # NilPtr
           /\ svcDb' = res.db
           /\ svcOp' = DbOp("insert", [id |-> item.id, details |-> details],
                            [err |-> res.err, fault |-> fault], svcOp.gone)
    /\ idCount' = idCount + 1
    /\ UNCHANGED <<svcProvider, storeLog, svcDim, shelfVars, redactVars, searchVars, onceVars>>

\* UpdateItem of an item by its id, with a new what and details to append
CallUpdateItem ==
    /\ svcSteps < MaxDbOps
    /\ svcSteps' = svcSteps + 1
    /\ \E itemID \in KnownIds, fault \in {"none", "lookup", "update", "detail"} :
        LET res == UpdateItemSteps(svcDb, itemID, Ptr(<<"y">>), NilPtr, NilPtr, NilPtr,
                                   Ptr(<<"e">>), fault)
        IN /\ HasItem(svcDb, itemID)
           /\ svcDb' = res.db
           /\ svcOp' = DbOp("update", [id |-> itemID],
                            [err |-> res.err, fault |-> fault], svcOp.gone)
    /\ UNCHANGED <<svcProvider, idCount, storeLog, svcDim, shelfVars, redactVars,
                   searchVars, onceVars>>

\* DeleteItem by id
CallDeleteItem ==
    /\ svcSteps < MaxDbOps
    /\ svcSteps' = svcSteps + 1
    /\ \E itemID \in KnownIds, fault \in {"none", "lookup", "detail", "item"} :
        LET res == DeleteItem(svcDb, itemID, fault)
        IN /\ fault # "none" => HasItem(svcDb, itemID)
           /\ svcDb' = res.db
           /\ svcOp' = DbOp("delete", [id |-> itemID],
                            [err |-> res.err, deleted |-> res.deleted, fault |-> fault],
                            IF res.deleted THEN svcOp.gone \cup {itemID} ELSE svcOp.gone)
    /\ UNCHANGED <<svcProvider, idCount, storeLog, svcDim, shelfVars, redactVars,
                   searchVars, onceVars>>

\* EnsureVecTable and InsertVector for an item, as the create path of Store
\* calls them
CallInsertVector ==
    /\ svcSteps < MaxDbOps
    /\ svcSteps' = svcSteps + 1
    /\ \E r \in DOMAIN svcDb.items :
        /\ svcDb' = StoreVector(svcDb, r, EmbedDim(EmbedText(ToItem(svcDb.items[r])), svcDim))
        /\ svcOp' = DbOp("vector", [id |-> svcDb.items[r].id], [err |-> FALSE], svcOp.gone)
    /\ UNCHANGED <<svcProvider, idCount, storeLog, svcDim, shelfVars, redactVars,
                   searchVars, onceVars>>

NextDb == CallInsertItem \/ CallUpdateItem \/ CallDeleteItem \/ CallInsertVector

SpecDb == InitDb /\ [][NextDb]_vars

\* the item rows, the detail rows and the full-text index of a database
Written(db) == <<db.items, db.details, db.fts, db.gone>>

\* C16: when a step of InsertItem, UpdateItem or DeleteItem fails, the item
\* rows, the detail rows and the full-text index are as before the call and
\* the call returns the failure
AllOrNothing ==
    (svcOp.name \in {"insert", "update", "delete"} /\ svcOp.res.fault # "none") =>
        /\ svcOp.res.err
        /\ Written(svcDb) = Written(svcOp.before)

\* the queries the searches are tried with: the words of the stored items
ProbeQueries == {<<"A">>, <<"x">>, <<"y">>, <<"p">>}

\* an entry with the id is in a result FTSSearch can return
InFTSSearch(db, id) ==
    \E q \in ProbeQueries :
        \E l \in FTSSearch(db, q, 10, NilPtr, NilPtr).lists : \E i \in 1..Len(l) : l[i].id = id

\* C11: once DeleteItem(id) has returned deleted = true, GetItem(id) and
\* GetDetails(id) return nothing and no FTSSearch, VectorSearch or
\* ListRecent result holds an entry with that id; a further DeleteItem(id)
\* in which no statement fails returns deleted = false without error
DeletedStaysGone ==
    /\ \A id \in svcOp.gone :
          /\ ~GetItem(svcDb, id)[1]
          /\ GetDetails(svcDb, id) = NilPtr
          /\ ~InFTSSearch(svcDb, id)
          /\ id \notin VectorSearch(svcDb, NilPtr)
          /\ id \notin ListRecent(svcDb, NilPtr)
    /\ (/\ svcOp.name = "delete"
        /\ svcOp.res.fault = "none"
        /\ svcOp.args.id \in svcOp.gone
        /\ ~HasItem(svcOp.before, svcOp.args.id)) =>
            (~svcOp.res.deleted /\ ~svcOp.res.err)

(***************************************************************************)
(* Properties of the header of a notes file (SpecShelf)                    *)
(***************************************************************************)
HeaderOf(file) == splitFrontmatter(file)[1]

HeaderTags == LastList(HeaderOf(shelf[P1]), <<"t", "a", "g", "s", ":">>)

HeaderSources == LastList(HeaderOf(shelf[P1]), <<"s", "o", "u", "r", "c", "e", "s", ":">>)

\* the tags of all items written to the file
WrittenTags == UNION {Elems(shelfLog[k].item.tags) : k \in 1..Len(shelfLog)}

\* the header lines that are neither the tag list nor the source list
OtherHeaderLines(file) ==
    SelectSeq(Texts(HeaderOf(file)),
              LAMBDA t : /\ ~HasPrefix(t, <<"t", "a", "g", "s", ":">>)
                         /\ ~HasPrefix(t, <<"s", "o", "u", "r", "c", "e", "s", ":">>))

\* C21: after any sequence of writes to one file, the tag list of the
\* header is the union of the tags of all items written, without two tags
\* that differ in case only and in alphabetical order, and the source list
\* holds the source of every item written, also when the first item had no
\* tags or no source; the other header lines are those of the first write
HeaderUnion ==
    shelfLog # <<>> =>
        /\ {ToLower(t) : t \in Elems(HeaderTags)} = {ToLower(t) : t \in WrittenTags}
        /\ \A i, j \in 1..Len(HeaderTags) :
              /\ ToLower(HeaderTags[i]) = ToLower(HeaderTags[j]) => i = j
              /\ i < j => ~StrLess(ToLower(HeaderTags[j]), ToLower(HeaderTags[i]))
        /\ \A k \in 1..Len(shelfLog) :
              shelfLog[k].item.source # NilPtr =>
                  shelfLog[k].item.source[1] \in Elems(HeaderSources)
        /\ OtherHeaderLines(shelf[P1])
              = OtherHeaderLines(createNewNotesFile(shelfLog[1].item, Today, <<>>, Now, 1))

\* C22: Remove cascades to the vector index: after Remove(id) returned true
\* for an item that had a vector, the vector table holds no row at that
\* item's rowid
RemoveCascades ==
    (/\ svcOp.name = "remove"
     /\ svcOp.res.deleted
     /\ HasItem(svcOp.before, svcOp.args)
     /\ HasVector(svcOp.before, svcOp.args)) =>
        RowidOf(svcOp.before, svcOp.args) \notin DOMAIN svcDb.vec

\* the words the stored notes of SpecService are made of
IndexProbes == {<<"A">>, <<"B">>, <<"x">>, <<"d">>, <<"p">>}

\* the vector at a rowid is the embedding of the item now at that rowid
OwnVector(db, r) ==
    /\ r \in DOMAIN db.items
    /\ db.vec[r] = EmbedDim(EmbedText(ToItem(db.items[r])), Len(db.vec[r]))

\* FTSSearch returns the item at a rowid for a query only if the query
\* matches the item's current fields
OwnMatches(db, r) ==
    \A q \in IndexProbes :
        r \in FtsMatches(db, QueryPhrases(q), NilPtr, NilPtr) =>
            \E i \in 1..Len(QueryPhrases(q)) : PhraseHits(db.fts[r], QueryPhrases(q)[i]) > 0

\* C28: after any sequence of Store and Remove calls (a removed item's
\* rowid can be given to a later item), every vector row belongs to a stored
\* item and is the embedding of that item, and FTSSearch returns an item
\* only for a query that matches a token of the item's current fields
NoStaleIndex ==
    /\ \A r \in DOMAIN svcDb.vec : OwnVector(svcDb, r)
    /\ \A r \in DOMAIN svcDb.items : OwnMatches(svcDb, r)

(***************************************************************************)
(* Properties of the update path of Service.Store (Spec)                   *)
(***************************************************************************)
\* a call of Store has just returned "updated"
JustUpdated ==
    /\ Len(storeLog') = Len(storeLog) + 1
    /\ storeLog'[Len(storeLog')].action = "updated"

UpdateFrame ==
    JustUpdated =>
        LET e == storeLog'[Len(storeLog')]
        IN /\ DOMAIN svcDb'.items = DOMAIN svcDb.items
           /\ \A r \in DOMAIN svcDb.items : svcDb'.items[r].project = svcDb.items[r].project
           /\ shelf' = shelf
           /\ shelfLog' = shelfLog
           /\ svcDb'.vec = svcDb.vec
           /\ svcDb'.vecTable = svcDb.vecTable
           /\ idCount' = idCount
           /\ HasItem(svcDb, e.id)
           /\ svcDb.items[RowidOf(svcDb, e.id)].filePath = e.filePath
           /\ svcDb.items[RowidOf(svcDb, e.id)].project = e.project

\* C25: a call of Store that takes the update path inserts no item row,
\* writes nothing to any shelf file, inserts no vector, and returns
\* "updated" with the id and the filePath of an item the project already
\* held; the items of every project and the shelf files are as many and the
\* same as before
UpdatePathFrame == [][UpdateFrame]_vars

\* a call returned "updated" after two items were created, one of them with
\* a vector
UpdatePathFrameWitness ==
    /\ Len(storeLog) = MaxStores
    /\ storeLog[Len(storeLog)].action = "updated"
    /\ Len(shelfLog) = 2
    /\ Cardinality(DOMAIN svcDb.vec) = 1

\* C26: when Store takes the update path for an input without details, the
\* detail rows are as before: an existing detail body is unchanged and an
\* item without a detail row has none afterwards
UpdateKeepsDetails ==
    \A i \in 1..Len(storeLog) :
        (storeLog[i].action = "updated" /\ storeLog[i].raw.details = NilPtr) =>
            storeLog[i].after.details = storeLog[i].before.details

(***************************************************************************)
(* SpecUpdate: InsertItem and UpdateItem called on one database, UpdateItem*)
(* with ids, prefixes and texts that match no item, and with every choice  *)
(* of the optional fields                                                  *)
(***************************************************************************)
MaxUpdOps == 3

\* the items inserted: a bare one in one project, and one with a why, a
\* tag, a category, details and a source in the other
UpdRaws == {
    [project |-> P1, raw |-> Raw(<<"A">>, <<"x">>, NilPtr, NilPtr, <<>>, NilPtr, NilPtr, NilPtr)],
    [project |-> P2, raw |-> Raw(<<"B">>, <<"x">>, Ptr(<<"z">>), NilPtr, <<<<"t">>>>, Ptr("bug"), Ptr(<<"d">>), Ptr(<<"s">>))] }

\* the itemID arguments: the empty text, the common prefix, the ids of the
\* first two items, a prefix in upper case with a wildcard, and two texts
\* that match nothing
UpdIds == {<<>>, <<"u">>, NewId(0), NewId(1), <<"U", "_">>, <<"v">>, <<"u", "0", "0">>}

\* the optional arguments of UpdateItem: none, what alone, why and impact,
\* an empty tag list, a tag list and details, and all of them
UpdArg(what, why, impact, tags, detailsAppend) ==
    [what |-> what, why |-> why, impact |-> impact, tags |-> tags,
     detailsAppend |-> detailsAppend]

UpdArgs == {
    UpdArg(NilPtr, NilPtr, NilPtr, NilPtr, NilPtr),
    UpdArg(Ptr(<<"y">>), NilPtr, NilPtr, NilPtr, NilPtr),
    UpdArg(NilPtr, Ptr(<<"y">>), Ptr(<<"i">>), NilPtr, NilPtr),
    UpdArg(NilPtr, NilPtr, NilPtr, Ptr(<<>>), NilPtr),
    UpdArg(Ptr(<<"y">>), NilPtr, NilPtr, Ptr(<<<<"s">>>>), Ptr(<<"e">>)),
    UpdArg(Ptr(<<"w">>), Ptr(<<"y">>), Ptr(<<"i">>), Ptr(<<<<"s">>>>), Ptr(<<"e">>)) }

UpdInsertItem ==
    /\ svcSteps < MaxUpdOps
    /\ svcSteps' = svcSteps + 1
    /\ \E c \in UpdRaws :
        LET item == FromRaw(c.raw, c.project, NotesPath(c.project), NewId(idCount))
        IN /\ svcDb' = InsertItem(svcDb, item, c.raw.details)
           /\ svcOp' = Op("insert", item.id, [err |-> FALSE])
    /\ idCount' = idCount + 1
    /\ UNCHANGED <<svcProvider, storeLog, svcDim, shelfVars, redactVars, searchVars, onceVars>>

UpdUpdateItem ==
    /\ svcSteps < MaxUpdOps
    /\ svcSteps' = svcSteps + 1
    /\ \E itemID \in UpdIds, a \in UpdArgs :
        LET res == UpdateItemSteps(svcDb, itemID, a.what, a.why, a.impact, a.tags,
                                   a.detailsAppend, "none")
        IN /\ svcDb' = res.db
           /\ svcOp' = Op("update",
                          [itemID |-> itemID, what |-> a.what, why |-> a.why,
                           impact |-> a.impact, tags |-> a.tags,
                           detailsAppend |-> a.detailsAppend],
                          [err |-> res.err])
    /\ UNCHANGED <<svcProvider, idCount, storeLog, svcDim, shelfVars, redactVars,
                   searchVars, onceVars>>

NextUpdate == UpdInsertItem \/ UpdUpdateItem

SpecUpdate == InitService /\ [][NextUpdate]_vars

\* the rows whose id the lookup of UpdateItem matches
Resolving(db, itemID) ==
    {r \in DOMAIN db.items : LikeMatch(db.items[r].id, itemID \o <<"%">>)}

\* the row after UpdateItem with the arguments a
Updated(row, a, updatedAt) ==
    [id |-> row.id, title |-> row.title, category |-> row.category,
     project |-> row.project, source |-> row.source, filePath |-> row.filePath,
     sectionAnchor |-> row.sectionAnchor, createdAt |-> row.createdAt,
     updatedAt |-> updatedAt,
     updatedCount |-> row.updatedCount + 1,
     what |-> IF a.what = NilPtr THEN row.what ELSE a.what[1],
     why |-> IF a.why = NilPtr THEN row.why ELSE a.why,
     impact |-> IF a.impact = NilPtr THEN row.impact ELSE a.impact,
     tags |-> IF a.tags = NilPtr THEN row.tags ELSE jsonMarshal(a.tags)]

\* C23: UpdateItem on an id or prefix that resolves to an item returns no
\* error, raises that item's updatedCount by 1, replaces those of what, why,
\* impact and tags that are given and no other, and leaves the item's id,
\* title, category, project, source, filePath, sectionAnchor and createdAt
\* and every other item as they were; on a text that matches no item it
\* returns the NotFound error and the database is as before
UpdateItemFrame ==
    svcOp.name = "update" =>
        LET b == svcOp.before
            a == svcOp.args
        IN IF Resolving(b, a.itemID) = {}
           THEN svcOp.res.err /\ svcDb = b
           ELSE /\ ~svcOp.res.err
                /\ DOMAIN svcDb.items = DOMAIN b.items
                /\ \E r \in Resolving(b, a.itemID) :
                      /\ svcDb.items[r] = Updated(b.items[r], a, svcDb.items[r].updatedAt)
                      /\ \A q \in DOMAIN b.items \ {r} : svcDb.items[q] = b.items[q]

\* UpdateItem by a prefix that two items share has replaced the tags and
\* the what of the first of them and left its why and impact
UpdateItemFrameWitness ==
    /\ svcOp.name = "update"
    /\ Cardinality(DOMAIN svcDb.items) = 2
    /\ svcOp.args.itemID = <<"u">>
    /\ svcOp.args.what # NilPtr /\ svcOp.args.tags # NilPtr
    /\ svcOp.args.why = NilPtr /\ svcOp.args.impact = NilPtr
    /\ \E r \in DOMAIN svcDb.items :
          /\ svcDb.items[r].why # NilPtr
          /\ svcDb.items[r].updatedCount = 1
          /\ svcDb.items[r].what = <<"y">>

(***************************************************************************)
(* SpecContext: Service.GetContext called with doubles of the database:    *)
(* the table of the items that pass the filters, and what Search returns   *)
(***************************************************************************)
\* the largest limit GetContext is called with
MaxCtxLimit == 3

CtxIds == {"a", "b", "c"}

CtxStamps == {1, 2}

\* the tables: the items that pass the filters, each with its createdAt
CtxTables == UNION {[ids -> CtxStamps] : ids \in SUBSET CtxIds}

CtxRows(table) == {[id |-> x, createdAt |-> table[x]] : x \in DOMAIN table}

\* `LIMIT ?` of SQLite: a negative limit is no limit
SqlLimit(rows, limit) ==
    IF limit < 0 \/ Len(rows) <= limit THEN rows ELSE SubSeq(rows, 1, limit)

\* the lists ListRecent can return: the rows ordered by created_at
\* descending (the order among equal stamps is not fixed), cut at the limit
ListRecentRows(table, limit) ==
    {SqlLimit(l, limit) :
        l \in {a \in Arrangements(CtxRows(table)) :
                  \A i \in 1..(Len(a) - 1) : a[i].createdAt >= a[i + 1].createdAt}}

\* the lists Search can return: items of the table in any order, cut at
\* the limit
SearchRows(table, limit) ==
    {SqlLimit(l, limit) : l \in UNION {Arrangements(CtxRows([x \in ids |-> table[x]])) :
                                           ids \in SUBSET DOMAIN table}}

\* a variant of the top-up loop: the rows are appended whether seen or not
RECURSIVE TopUpAppending(_, _, _, _)
TopUpAppending(results, recent, seen, limit) ==
    IF recent = <<>> THEN results
    ELSE LET next == Append(results, Head(recent))
         IN IF Len(next) >= limit THEN next
            ELSE TopUpAppending(next, Tail(recent), seen, limit)

\* the loop of GetContext over recent, lines 278-285: a row not seen is
\* appended, and the loop ends when the results reach the limit
RECURSIVE TopUp(_, _, _, _)
TopUp(results, recent, seen, limit) ==
    IF recent = <<>> THEN results
    ELSE IF Head(recent).id \in seen THEN TopUp(results, Tail(recent), seen, limit)
    ELSE LET next == Append(results, Head(recent))
         IN IF Len(next) >= limit THEN next
            ELSE TopUp(next, Tail(recent), seen, limit)

\* GetContext: [results, total, err]; search and recent are what Search and
\* ListRecent return when they are called
GetContext(total, countErr, search, searchErr, recent, recentErr, limit, hasQuery, topupRecent) ==
    LET failed == [results |-> <<>>, total |-> 0, err |-> TRUE]
        seen == {search[i].id : i \in 1..Len(search)}
    IN IF countErr THEN failed
       ELSE IF hasQuery
       THEN IF searchErr THEN failed
            ELSE IF topupRecent /\ Len(search) < limit /\ ~recentErr
            THEN [results |-> TopUp(search, recent, seen, limit), total |-> total,
                  err |-> FALSE]
            ELSE [results |-> search, total |-> total, err |-> FALSE]
       ELSE IF recentErr THEN failed
       ELSE [results |-> recent, total |-> total, err |-> FALSE]

CallGetContext ==
    /\ svcOp = NoOp
    /\ svcSteps' = svcSteps + 1
    /\ \E table \in CtxTables, limit \in -1..MaxCtxLimit, hasQuery, topupRecent \in BOOLEAN,
          fault \in {"none", "count", "search", "recent"} :
        \E search \in SearchRows(table, limit), recent \in ListRecentRows(table, limit) :
            svcOp' = Op("context",
                        [table |-> table, limit |-> limit, hasQuery |-> hasQuery,
                         topupRecent |-> topupRecent, fault |-> fault,
                         search |-> search, recent |-> recent],
                        GetContext(Cardinality(DOMAIN table), fault = "count",
                                   search, fault = "search", recent, fault = "recent",
                                   limit, hasQuery, topupRecent))
    /\ UNCHANGED <<storeVars, svcDim, shelfVars, redactVars, searchVars, onceVars>>

NextContext == CallGetContext

SpecContext == InitService /\ [][NextContext]_vars

RowIds(rows) == {rows[i].id : i \in 1..Len(rows)}

\* C24: GetContext with a query and topupRecent, when Search returned
\* fewer than limit results (and ListRecent did not fail), returns the
\* search results in their order, followed by items not among them, most
\* recent first and none passed over for an older one, with no id twice and
\* at most limit entries, as many as the table can give; when topupRecent is
\* false or Search returned limit results, it returns the search results
ContextTopUp ==
    (svcOp.name = "context" /\ svcOp.args.hasQuery /\ ~svcOp.res.err) =>
        LET a == svcOp.args
            out == svcOp.res.results
            n == Len(a.search)
        IN IF a.topupRecent /\ n < a.limit /\ a.fault # "recent"
           THEN /\ Len(out) >= n
                /\ SubSeq(out, 1, n) = a.search
                /\ Len(out) <= a.limit
                /\ \A i, j \in 1..Len(out) : out[i].id = out[j].id => i = j
                /\ \A i \in (n + 1)..Len(out) :
                      /\ out[i] \in CtxRows(a.table)
                      /\ \A j \in (i + 1)..Len(out) : out[i].createdAt >= out[j].createdAt
                      /\ \A row \in CtxRows(a.table) :
                            row.id \notin RowIds(out) => row.createdAt <= out[i].createdAt
                /\ Len(out) = a.limit \/ DOMAIN a.table \subseteq RowIds(out)
           ELSE out = a.search

\* two search results were topped up with the one item left, which is newer
\* than one of them, and ListRecent had listed a search result first
ContextTopUpWitness ==
    /\ svcOp.name = "context"
    /\ svcOp.args.hasQuery /\ svcOp.args.topupRecent /\ svcOp.args.fault = "none"
    /\ svcOp.args.limit = 3
    /\ Len(svcOp.args.search) = 2
    /\ Len(svcOp.res.results) = 3
    /\ svcOp.args.recent[1].id \in RowIds(svcOp.args.search)
    /\ svcOp.res.results[3].createdAt > svcOp.res.results[1].createdAt

(***************************************************************************)
(* SpecAvail: Store, Reindex and Search on one Service, whose              *)
(* VectorsAvailable caches the answer of HasVecTable under vectorsOnce,    *)
(* and the process started again                                           *)
(***************************************************************************)
MaxAvailOps == 3

\* VectorsAvailable, lines 122-127: the guard after the call, and what the
\* call returned; f runs only when the guard is not done yet
VectorsAvailable(once, db) ==
    IF once.done = 1 THEN [once |-> once, value |-> once.value = "true"]
    ELSE [once |-> [once EXCEPT !.done = 1, !.calls = @ + 1,
                                !.value = IF HasVecTable(db) THEN "true" ELSE "false"],
          value |-> HasVecTable(db)]

AvailCalls == {
    [entry |-> "mcp", project |-> P1, raw |-> Raw(<<"A">>, <<"x">>, NilPtr, NilPtr, <<>>, NilPtr, NilPtr, NilPtr)],
    [entry |-> "mcp", project |-> P1, raw |-> Raw(<<"B">>, <<"y">>, NilPtr, NilPtr, <<>>, NilPtr, NilPtr, NilPtr)] }

AvailStore == ServiceStore(AvailCalls, {"none"})

\* Service.Search, lines 242-251: the path taken, "fts" for
\* db.FTSSearch and "tiered" for search.TieredSearch; VectorsAvailable is
\* called only when the provider is there and useVectors is set
AvailSearch ==
    /\ svcSteps < MaxAvailOps
    /\ svcSteps' = svcSteps + 1
    /\ \E provider \in (IF svcProvider = "unset" THEN {"ok", "err"} ELSE {svcProvider}),
          useVectors \in BOOLEAN :
        LET avail == VectorsAvailable(oOnce["vec"], svcDb)
        IN /\ svcProvider' = provider
           /\ IF provider = "err" \/ ~useVectors
              THEN /\ svcOp' = Op("search", [useVectors |-> useVectors],
                                  [path |-> "fts", provider |-> provider])
                   /\ UNCHANGED oOnce
              ELSE /\ oOnce' = [oOnce EXCEPT !["vec"] = avail.once]
                   /\ svcOp' = Op("search", [useVectors |-> useVectors],
                                  [path |-> IF avail.value THEN "tiered" ELSE "fts",
                                   provider |-> provider])
    /\ UNCHANGED <<svcDb, idCount, storeLog, svcDim, shelfVars, redactVars, searchVars,
                   oPc, oKind, oRet, oRaced>>

\* the process ends and another starts: NewService with nothing cached
AvailRestart ==
    /\ svcSteps < MaxAvailOps
    /\ svcSteps' = svcSteps + 1
    /\ svcDb' = migrate(svcDb)
    /\ svcProvider' = "unset"
    /\ oOnce' = [oOnce EXCEPT !["vec"] = [@ EXCEPT !.done = 0, !.value = "zero"]]
    /\ svcOp' = Op("restart", svcDim, [err |-> FALSE])
    /\ UNCHANGED <<idCount, storeLog, svcDim, shelfVars, redactVars, searchVars,
                   oPc, oKind, oRet, oRaced>>

NextAvail == AvailStore \/ ServiceReindex \/ AvailSearch \/ AvailRestart

SpecAvail == InitService /\ [][NextAvail]_vars

\* C27: in every state of a Service instance, the cached "vectors
\* available" flag, once computed, equals HasVecTable of the store, and a
\* Search with useVectors and a provider takes the tiered path whenever the
\* vector table exists (created by an earlier Store or Reindex of the same
\* instance or before)
FlagFresh ==
    /\ oOnce["vec"].done = 1 => (oOnce["vec"].value = "true") = HasVecTable(svcDb)
    /\ (/\ svcOp.name = "search"
        /\ svcOp.args.useVectors
        /\ svcOp.res.provider = "ok"
        /\ HasVecTable(svcDb)) => svcOp.res.path = "tiered"

(***************************************************************************)
(* SpecRace: Store called by concurrent requests of the protocol server on *)
(* one Service.  A call first runs its two dedup probes and later, with    *)
(* the decision it took from them, writes: no lock is held in between.     *)
(***************************************************************************)
MaxRacers == 2

Racers == 1..MaxRacers

\* the requests: the same project, title and what three times (once more
\* with a tag, once with details), and another title
RaceCalls == {
    [project |-> P1, raw |-> Raw(<<"A">>, <<"x">>, NilPtr, NilPtr, <<>>, NilPtr, NilPtr, NilPtr)],
    [project |-> P1, raw |-> Raw(<<"A">>, <<"x">>, NilPtr, NilPtr, <<<<"t">>>>, NilPtr, NilPtr, NilPtr)],
    [project |-> P1, raw |-> Raw(<<"A">>, <<"x">>, NilPtr, NilPtr, <<>>, NilPtr, Ptr(<<"d">>), NilPtr)],
    [project |-> P1, raw |-> Raw(<<"B">>, <<"y">>, NilPtr, NilPtr, <<>>, NilPtr, NilPtr, NilPtr)] }

\* a request: where it stands ("idle", "probed", "done"), the call, the
\* candidate its probes chose (nil for the create path), what it returned
Racer(pc, call, target, res) == [pc |-> pc, call |-> call, target |-> target, res |-> res]

InitRace ==
    /\ StoreIdle /\ ShelfIdle /\ SearchIdle /\ RedactIdle /\ OnceIdle
    /\ svcOp = [name |-> "race", racer |-> [t \in Racers |-> Racer("idle", NilPtr, NilPtr, NilPtr)]]
    /\ svcDim = 2
    /\ svcSteps = 0

\* Store up to the dedup decision, lines 135-180: redaction and the two
\* FTSSearch probes
RaceProbe ==
    \E t \in Racers, call \in RaceCalls :
        /\ svcOp.racer[t].pc = "idle"
        /\ \E target \in DedupDecisions(svcDb, RedactRaw(call.raw), call.project) :
              svcOp' = [svcOp EXCEPT !.racer[t] = Racer("probed", Ptr(call), target, NilPtr)]
        /\ svcSteps' = svcSteps + 1
        /\ UNCHANGED <<storeVars, svcDim, shelfVars, redactVars, searchVars, onceVars>>

\* Store from the decision on: the update path when the probes chose a
\* candidate, lines 180-203
RaceUpdate ==
    \E t \in Racers :
        /\ svcOp.racer[t].pc = "probed"
        /\ svcOp.racer[t].target # NilPtr
        /\ LET call == svcOp.racer[t].call[1]
               top == svcOp.racer[t].target[1]
           IN /\ svcDb' = StoreUpdate(svcDb, RedactRaw(call.raw), top)
              /\ svcOp' = [svcOp EXCEPT !.racer[t].pc = "done",
                                        !.racer[t].res = Ptr([action |-> "updated", id |-> top.id])]
        /\ UNCHANGED <<svcProvider, idCount, storeLog, svcDim, svcSteps, shelfVars,
                       redactVars, searchVars, onceVars>>

\* the create path otherwise, lines 207-238: the shelf section, the item
\* row, and the vector when the provider is there
RaceCreate ==
    \E t \in Racers :
        /\ svcOp.racer[t].pc = "probed"
        /\ svcOp.racer[t].target = NilPtr
        /\ LET call == svcOp.racer[t].call[1]
               raw == RedactRaw(call.raw)
               item == FromRaw(raw, call.project, NotesPath(call.project), NewId(idCount))
               k == Len(shelfLog) + 1
               inserted == InsertItem(svcDb, item, raw.details)
               stored == StoreVector(inserted, RowidOf(inserted, item.id),
                                     EmbedDim(EmbedText(item), svcDim))
           IN /\ shelf' = [shelf EXCEPT ![call.project] =
                               WriteNoteItem(@, item, Today, raw.details, Now, k)]
              /\ shelfLog' = Append(shelfLog, [project |-> call.project, item |-> item,
                                                details |-> raw.details,
                                                section |-> renderSection(item, raw.details)])
              /\ idCount' = idCount + 1
              /\ \E provider \in (IF svcProvider = "unset" THEN {"ok", "err"}
                                  ELSE {svcProvider}) :
                    /\ svcProvider' = provider
                    /\ svcDb' = IF provider = "ok" THEN stored ELSE inserted
              /\ svcOp' = [svcOp EXCEPT !.racer[t].pc = "done",
                                        !.racer[t].res = Ptr([action |-> "created", id |-> item.id])]
        /\ UNCHANGED <<storeLog, svcDim, svcSteps, redactVars, searchVars, onceVars>>

NextRace == RaceProbe \/ RaceUpdate \/ RaceCreate

SpecRace == InitRace /\ [][NextRace]_vars

\* the items of a project with a title, compared as Store compares titles
ItemsTitled(db, project, title) ==
    {r \in DOMAIN db.items :
        db.items[r].project = project /\ titleMatch(db.items[r].title, title)}

\* C29: when two concurrent Store calls with the same project, the same
\* title and the same what have both returned, however their steps were
\* interleaved, the project holds exactly one item with that title, one
\* call returned "created" and the other "updated", and both returned the
\* same id
RaceMerges ==
    \A t, u \in Racers :
        (/\ t # u
         /\ \A v \in Racers : svcOp.racer[v].pc = IF v \in {t, u} THEN "done" ELSE "idle"
         /\ svcOp.racer[t].call[1].project = svcOp.racer[u].call[1].project
         /\ svcOp.racer[t].call[1].raw.title = svcOp.racer[u].call[1].raw.title
         /\ svcOp.racer[t].call[1].raw.what = svcOp.racer[u].call[1].raw.what) =>
            /\ Cardinality(ItemsTitled(svcDb, svcOp.racer[t].call[1].project,
                                       svcOp.racer[t].call[1].raw.title)) = 1
            /\ {svcOp.racer[t].res[1].action, svcOp.racer[u].res[1].action}
                  = {"created", "updated"}
            /\ svcOp.racer[t].res[1].id = svcOp.racer[u].res[1].id

(***************************************************************************)
(* SpecTwin: Store called side by side on two pantry homes with a working  *)
(* embedding provider that receive the same calls for project p, while     *)
(* items of project q are stored in the first home only                    *)
(***************************************************************************)
\* the Store calls for project p
MaxTwinOps == 2

\* a pantry home: the database, the shelf files, the sections written
World(db, files, sections) == [db |-> db, files |-> files, sections |-> sections]

\* the calls for project p: a note, and the same title with a longer what
TwinCalls == {
    [project |-> P1, raw |-> Raw(<<"A">>, <<"x">>, NilPtr, NilPtr, <<>>, NilPtr, NilPtr, NilPtr)],
    [project |-> P1, raw |-> Raw(<<"A">>, <<"x", " ", "y", " ", "y">>, NilPtr, NilPtr, <<>>, NilPtr, NilPtr, NilPtr)] }

\* the calls for project q: a note that shares the title and a word with
\* those of p, and two that share nothing
OtherCalls == {
    [project |-> P2, raw |-> Raw(<<"A">>, <<"y">>, NilPtr, NilPtr, <<>>, NilPtr, NilPtr, NilPtr)],
    [project |-> P2, raw |-> Raw(<<"C">>, <<"z">>, NilPtr, NilPtr, <<>>, NilPtr, NilPtr, NilPtr)],
    [project |-> P2, raw |-> Raw(<<"D">>, <<"w">>, NilPtr, NilPtr, <<>>, NilPtr, NilPtr, NilPtr)] }

\* Store in one home after the dedup decision: what it returns and the home
\* afterwards
StoreIn(w, call, target, id, provider) ==
    LET raw == RedactRaw(call.raw)
        item == FromRaw(raw, call.project, NotesPath(call.project), id)
        inserted == InsertItem(w.db, item, raw.details)
        stored == StoreVector(inserted, RowidOf(inserted, item.id),
                              EmbedDim(EmbedText(item), svcDim))
    IN IF target # NilPtr
       THEN [action |-> "updated", id |-> target[1].id,
             world |-> [w EXCEPT !.db = StoreUpdate(w.db, raw, target[1])]]
       ELSE [action |-> "created", id |-> id,
             world |-> World(IF provider = "ok" THEN stored ELSE inserted,
                             [w.files EXCEPT ![call.project] =
                                 WriteNoteItem(@, item, Today, raw.details, Now,
                                               w.sections + 1)],
                             w.sections + 1)]

\* Store in one home: one outcome per way the dedup probes can come back
StoresIn(w, call, id) ==
    {StoreIn(w, call, target, id, "ok") :
        target \in DedupDecisions(w.db, RedactRaw(call.raw), call.project)}

\* the items of a project and their detail bodies
ItemsOf(db, project) ==
    [rows |-> {db.items[r] : r \in {q \in DOMAIN db.items : db.items[q].project = project}},
     details |-> {<<id, db.details[id]>> :
                     id \in {x \in DOMAIN db.details :
                                \E r \in DOMAIN db.items :
                                    db.items[r].id = x /\ db.items[r].project = project}}]

InitTwin ==
    /\ StoreIdle /\ ShelfIdle /\ SearchIdle /\ RedactIdle /\ OnceIdle
    /\ svcOp = [name |-> "none", world |-> <<World(NewDB, NoFiles, 0), World(NewDB, NoFiles, 0)>>]
    /\ svcDim = 2
    /\ svcSteps = 0

\* the same Store call for project p in both homes
TwinStore ==
    /\ svcSteps < MaxTwinOps
    /\ svcSteps' = svcSteps + 1
    /\ idCount' = idCount + 1
    /\ svcProvider' = "ok"
    /\ \E call \in TwinCalls :
        \E outs1 \in {StoresIn(svcOp.world[1], call, NewId(idCount))},
           outs2 \in {StoresIn(svcOp.world[2], call, NewId(idCount))} :
           \E r1 \in outs1, r2 \in outs2 :
              svcOp' = [name |-> "store", call |-> call, before |-> svcOp.world,
                        ways |-> <<Cardinality(outs1), Cardinality(outs2)>>,
                        world |-> <<r1.world, r2.world>>,
                        res |-> <<[action |-> r1.action, id |-> r1.id],
                                  [action |-> r2.action, id |-> r2.id]>>]
    /\ UNCHANGED <<svcDb, storeLog, svcDim, shelfVars, redactVars, searchVars, onceVars>>

\* a Store call for project q, each once, in the first home
TwinOther ==
    /\ UNCHANGED svcSteps
    /\ idCount' = idCount + 1
    /\ svcProvider' = "ok"
    /\ \E call \in OtherCalls :
        /\ \A row \in ItemsOf(svcOp.world[1].db, P2).rows : row.title # call.raw.title
        /\ \E r \in StoresIn(svcOp.world[1], call, <<"v", Digits[idCount + 1]>>) :
              svcOp' = [name |-> "other", call |-> call, before |-> svcOp.world,
                         ways |-> <<1, 1>>,
                         world |-> [svcOp.world EXCEPT ![1] = r.world],
                         res |-> <<[action |-> r.action, id |-> r.id]>>]
    /\ UNCHANGED <<svcDb, storeLog, svcDim, shelfVars, redactVars, searchVars, onceVars>>

NextTwin == TwinStore \/ TwinOther

SpecTwin == InitTwin /\ [][NextTwin]_vars

\* the items the dedup probe of a call matches, in any project
ProbeMatches(db, call) ==
    FtsMatches(db, QueryPhrases(DedupQuery(RedactRaw(call.raw))), NilPtr, NilPtr)

\* the two homes hold the same items in the project of the call just made,
\* and in each the probes could come back in one way only
TwinsAlike ==
    /\ svcOp.name = "store"
    /\ ItemsOf(svcOp.before[1].db, svcOp.call.project)
          = ItemsOf(svcOp.before[2].db, svcOp.call.project)
    /\ svcOp.ways = <<1, 1>>

TwinsAgree ==
    /\ svcOp.res[1].action = svcOp.res[2].action
    /\ ItemsOf(svcOp.world[1].db, svcOp.call.project)
          = ItemsOf(svcOp.world[2].db, svcOp.call.project)

\* C30 as stated: for two stores that hold the same items in p and differ
\* only in the items of other projects, Store(raw, p) returns the same
\* action in both and leaves the items of p in the same state in both
StoreIgnoresOthers == TwinsAlike => TwinsAgree

\* C30, amended: the same, for stores in which the dedup probe of raw
\* matches no item of another project and at most one item of p
StoreIgnoresUnmatched ==
    (/\ TwinsAlike
     /\ \A i \in {1, 2} :
           LET m == ProbeMatches(svcOp.before[i].db, svcOp.call)
               db == svcOp.before[i].db
           IN /\ \A r \in m : db.items[r].project = svcOp.call.project
              /\ Cardinality(m) <= 1) => TwinsAgree

\* the probe matched one item of p in both homes, one of which holds an
\* item of q and the other none, and the call was an update in both
StoreIgnoresUnmatchedWitness ==
    /\ TwinsAlike
    /\ \A i \in {1, 2} : Cardinality(ProbeMatches(svcOp.before[i].db, svcOp.call)) = 1
    /\ Cardinality(DOMAIN svcOp.before[1].db.items)
          # Cardinality(DOMAIN svcOp.before[2].db.items)
    /\ svcOp.res[1].action = "updated"
    /\ svcOp.res[2].action = "updated"

====
